---- MODULE Spec2Model ----
(***************************************************************************)
(* Streaming commentary pipeline of futbolito-mvp.                         *)
(*                                                                         *)
(* Time is counted in ticks of 0.05 s (Sec(n) is n seconds), so that the   *)
(* 0.1 s minimum chunk duration and a fractional video duration are both   *)
(* representable.  Commentary times are whole seconds (HH:MM:SS strings).  *)
(***************************************************************************)
EXTENDS Integers, Sequences, FiniteSets, TLC

VARIABLES
    \* ---- muxing stage: StreamingPipeline._create_video_chunks ----
    video_duration,   \* self.video_duration, in ticks
    commentaries,     \* the commentary segments of the session (input)
    pending,          \* segments whose synthesis result has not arrived yet
    audio_queue,      \* asyncio.Queue between synthesis and muxing
    audio_buffer,     \* the min-heap of buffered synthesis results
    chunk_index,
    chunk_start,
    audio_complete,
    chunk_queue,      \* asyncio.Queue of emitted chunks (NoneMarker ends it)
    mux_pc,           \* position of the muxing coroutine
    arrived,          \* history: synthesis results in order of arrival
    popped,           \* history: items popped from audio_buffer, in order
    create_failed,    \* history: some _create_single_chunk call raised
    null_audio,       \* the items whose audio_base64 is None (or "")
    dropped,          \* history: items popped without a chunk, and why
    \* ---- detection stage: EventDetector.detect_events_rolling_window ----
    clips,            \* the VideoClip list, in order
    det_i,            \* index (1-based) of the clip being processed
    det_pc,           \* position inside the per-clip try block
    all_events,       \* the in-memory list all_events
    events_file,      \* content of events.json
    time_analyzed,    \* content of time_analyzed.txt (0 while it is missing)
    detected,         \* history: per clip, the events detection returned
    last_done,        \* history: the clip whose processing ended last
    \* ---- StateManager ----
    sm_time_analyzed, \* self._time_analyzed
    sm_events,        \* self.events (and events.json, saved on every append)
    sm_lock,          \* self.lock: 0 when free, else the caller holding it
    sm_op,            \* per caller: the operation it is inside, or "idle"
    sm_calls,         \* number of operations started
    sm_observed,      \* history: values returned by get_time_analyzed
    \* ---- synthesis stage: StreamingPipeline._generate_audio_parallel ----
    tts_available,    \* self.tts_generator is set
    commentary_queue, \* asyncio.Queue between narration and synthesis
    tasks,            \* the local set "tasks"
    running,          \* the _generate_single_audio tasks not yet finished
    synth_pc,         \* position of the synthesis coroutine
    \* ---- RateLimiter ----
    rl_now,           \* time.time()
    last_request_time,\* self.last_request_time (NoTime for None)
    rl_lock,          \* self._lock: 0 when free, else the thread holding it
    rl_pc,            \* per thread: "idle" or "sleeping" inside wait_if_needed
    rl_wake,          \* per thread: the time its time.sleep ends
    rl_read,          \* per thread: current_time read before sleeping
    rl_calls,         \* number of wait_if_needed / reset calls started
    rl_admitted,      \* history: the calls let through, and the resets
    \* ---- one call to the external service (detection or narration) ----
    call_kind,        \* "detection" or "narration"
    call_script,      \* what the service answers to the 1st, 2nd, ... request
    call_attempt,     \* number of requests issued so far
    call_pc,          \* "request", "backoff" or "done"
    call_result,      \* how the call ended ("none" while it runs)
    call_delays,      \* history: the backoff delays slept, in seconds
    call_requests,    \* history: per request, the limiter calls made before it
    \* ---- one session: StreamingPipeline.process_video_stream ----
    ses_pc,           \* position of the generator
    ses_out,          \* the events yielded so far
    ses_duration,     \* self.video_duration, in ticks
    ses_clips,        \* self.clips
    ses_i,            \* index (1-based) of the segment being processed
    ses_chunk_index,  \* the local chunk_index
    ses_found,        \* events detected in the current segment
    ses_commentaries, \* commentaries generated for the current segment
    ses_audio,        \* audio_data_list: commentaries with synthesized audio
    ses_chunk_data,   \* what _process_segment_and_emit returned
    ses_log,          \* history: what happened to each segment
    \* ---- one upload: StreamingPipeline._upload_clip ----
    up_pc,            \* position inside _upload_clip ("idle" before it is awaited)
    up_retry_count,   \* the local retry_count
    up_seen_active,   \* history: some poll observed the ACTIVE state
    \* ---- narration of one segment: CommentaryGenerator.generate_commentary ----
    val_pc,           \* "raw" (response parsed) or "returned"
    val_raw,          \* commentary_output.commentaries, timestamps sanitized
    val_out,          \* final_commentaries (<<>> before the call has returned)
    val_tail,         \* the last commentary returned by the earlier calls
    val_batches,      \* number of generate_commentary calls of the session
    \* ---- timestamps of one detection: EventDetector.detect_events_for_interval ----
    off_pc,           \* "parsed" (response validated) or "returned"
    off_clip,         \* the clip analysed: interval_start and interval_end
    off_raw,          \* event.time as the service returned it
    off_time,         \* event.time as returned to the caller
    \* ---- segmenter: calculate_video_intervals ----
    iv_pc,            \* "loop" or "returned"
    iv_duration,      \* duration_seconds, in ticks
    iv_interval,      \* interval_seconds, in ticks
    iv_current_start, \* current_start
    iv_intervals,     \* the list intervals, its first MaxIntervals entries
    iv_overflow,      \* parity of the number of entries beyond those
    \* ---- StateManager with its files: appends, reads and restart ----
    st_events,        \* self.events
    st_commentary,    \* self.commentary
    st_time_analyzed, \* self._time_analyzed
    st_events_file,   \* content of events.json
    st_commentary_file,\* content of commentary.json
    st_lock,          \* self.lock: 0 when free, else the caller holding it
    st_op,            \* per caller: the operation it is inside and how far it is
    st_calls,         \* number of operations started
    st_log,           \* history: the operations completed, in order of completion
    \* ---- the chunk files and the final video of a session ----
    fin_files,        \* the indices i for which chunk_i.mp4 exists
    fin_video,        \* what _create_final_video produced (NoFinalVideo before)
    \* ---- one synthesis task: _generate_single_audio and TTSGenerator.generate_audio ----
    tts_pc,           \* "idle", "call" (inside generate_audio) or "returned"
    tts_item,         \* index (1-based) of the commentary the task is for
    tts_outcomes,     \* history: what each convert request of this item did
    tts_sleeps,       \* history: the wait_time slept after each failed request
    tts_audio,        \* audio_base64 of this item: "audio", "" or "None"
    tts_queue,        \* the items put on audio_queue, in order
    \* ---- detection and narration stages: _detect_events_streaming, _generate_commentary_streaming ----
    pd_total,         \* total_clips = len(self.clips)
    pd_i,             \* the loop variable i of the detection stage (1-based)
    pd_pc,            \* "loop" or "done"
    event_queue,      \* asyncio.Queue between detection and narration
    nar_pc,           \* "get", "put" (inside the for loop over commentaries) or "done"
    nar_interval_index,\* the local interval_index of the narration stage
    nar_todo,         \* the commentaries of the batch not yet put
    ev_put,           \* history: interval_index of each batch put on event_queue
    com_put,          \* history: interval_index of each item put on commentary_queue
    \* ---- audio delay of one overlay: _create_single_chunk, _create_single_chunk_multi_audio ----
    dl_pc,            \* "called", then "single", "multi" or "skipped"
    dl_commentary_start,\* parse_time_to_seconds(commentary.start_time), in ticks
    dl_chunk_start,   \* chunk_start, in ticks
    dl_chunk_end,     \* chunk_end of the segment (multi-audio path)
    dl_delay_ms,      \* delay_ms as passed to adelay (-1 before it is computed)
    dl_warned,        \* the "[WARNING] Negative delay calculated" line was printed
    \* ---- time strings: seconds_to_time and parse_time_to_seconds ----
    tm_pc,            \* "input", "formatted" or "parsed"
    tm_seconds,       \* the argument of seconds_to_time, in whole seconds
    tm_text,          \* the string returned, as its fields between the colons
    tm_parsed         \* what parse_time_to_seconds returned for it, in ticks

mux_vars == <<video_duration, commentaries, pending, audio_queue, audio_buffer,
              chunk_index, chunk_start, audio_complete, chunk_queue, mux_pc,
              arrived, popped, create_failed, null_audio, dropped>>

det_vars == <<clips, det_i, det_pc, all_events, events_file, time_analyzed,
              detected, last_done>>

sm_vars == <<sm_time_analyzed, sm_events, sm_lock, sm_op, sm_calls,
             sm_observed>>

synth_vars == <<tts_available, commentary_queue, tasks, running, synth_pc>>

rl_vars == <<rl_now, last_request_time, rl_lock, rl_pc, rl_wake, rl_read,
             rl_calls, rl_admitted>>

call_vars == <<call_kind, call_script, call_attempt, call_pc, call_result,
               call_delays, call_requests>>

ses_vars == <<ses_pc, ses_out, ses_duration, ses_clips, ses_i, ses_chunk_index,
              ses_found, ses_commentaries, ses_audio, ses_chunk_data, ses_log>>

up_vars == <<up_pc, up_retry_count, up_seen_active>>

val_vars == <<val_pc, val_raw, val_out, val_tail, val_batches>>

off_vars == <<off_pc, off_clip, off_raw, off_time>>

iv_vars == <<iv_pc, iv_duration, iv_interval, iv_current_start, iv_intervals,
            iv_overflow>>

st_vars == <<st_events, st_commentary, st_time_analyzed, st_events_file, st_commentary_file, st_lock, st_op, st_calls, st_log>>

fin_vars == <<fin_files, fin_video>>

tts_vars == <<tts_pc, tts_item, tts_outcomes, tts_sleeps, tts_audio, tts_queue>>

pipe_vars == <<pd_total, pd_i, pd_pc, event_queue, nar_pc, nar_interval_index, nar_todo, ev_put, com_put>>

dl_vars == <<dl_pc, dl_commentary_start, dl_chunk_start, dl_chunk_end,
            dl_delay_ms, dl_warned>>

tm_vars == <<tm_pc, tm_seconds, tm_text, tm_parsed>>

vars == <<mux_vars, det_vars, sm_vars, synth_vars, rl_vars, call_vars,
          ses_vars,
          up_vars,
          val_vars,
          off_vars,
          iv_vars,
          st_vars,
          fin_vars,
          tts_vars,
          pipe_vars,
          dl_vars,
          tm_vars>>

\* What the actions of one component leave unchanged.
not_mux == <<det_vars, sm_vars, synth_vars, rl_vars, call_vars, ses_vars,
          up_vars,
          val_vars,
          off_vars,
          iv_vars,
          st_vars,
          fin_vars,
          tts_vars,
          pipe_vars,
          dl_vars,
          tm_vars>>
not_det == <<mux_vars, sm_vars, synth_vars, rl_vars, call_vars, ses_vars,
          up_vars,
          val_vars,
          off_vars,
          iv_vars,
          st_vars,
          fin_vars,
          tts_vars,
          pipe_vars,
          dl_vars,
          tm_vars>>
not_sm == <<mux_vars, det_vars, synth_vars, rl_vars, call_vars, ses_vars,
          up_vars,
          val_vars,
          off_vars,
          iv_vars,
          st_vars,
          fin_vars,
          tts_vars,
          pipe_vars,
          dl_vars,
          tm_vars>>
not_rl == <<mux_vars, det_vars, sm_vars, synth_vars, call_vars, ses_vars,
          up_vars,
          val_vars,
          off_vars,
          iv_vars,
          st_vars,
          fin_vars,
          tts_vars,
          pipe_vars,
          dl_vars,
          tm_vars>>
not_call == <<mux_vars, det_vars, sm_vars, synth_vars, rl_vars, ses_vars,
          up_vars,
          val_vars,
          off_vars,
          iv_vars,
          st_vars,
          fin_vars,
          tts_vars,
          pipe_vars,
          dl_vars,
          tm_vars>>
not_ses == <<mux_vars, det_vars, synth_vars, rl_vars, call_vars,
          up_vars,
          val_vars,
          off_vars,
          iv_vars,
          st_vars,
          fin_vars,
          tts_vars,
          pipe_vars,
          dl_vars,
          tm_vars>>
not_ses_up == <<mux_vars, det_vars, synth_vars, rl_vars, call_vars,
          val_vars,
          off_vars,
          iv_vars,
          st_vars,
          fin_vars,
          tts_vars,
          pipe_vars,
          dl_vars,
          tm_vars>>
not_val == <<mux_vars, det_vars, sm_vars, synth_vars, rl_vars, call_vars,
          ses_vars, up_vars,
          off_vars,
          iv_vars,
          st_vars,
          fin_vars,
          tts_vars,
          pipe_vars,
          dl_vars,
          tm_vars>>
not_off == <<mux_vars, det_vars, sm_vars, synth_vars, rl_vars, call_vars,
          ses_vars, up_vars, val_vars,
          iv_vars,
          st_vars,
          fin_vars,
          tts_vars,
          pipe_vars,
          dl_vars,
          tm_vars>>
not_iv == <<mux_vars, det_vars, sm_vars, synth_vars, rl_vars, call_vars,
          ses_vars, up_vars, val_vars, off_vars,
          st_vars,
          fin_vars,
          tts_vars,
          pipe_vars,
          dl_vars,
          tm_vars>>
not_pipe == <<mux_vars, det_vars, sm_vars, synth_vars, rl_vars, call_vars,
          ses_vars, up_vars, val_vars, off_vars, iv_vars,
          fin_vars,
          tts_vars,
          st_vars,
          dl_vars,
          tm_vars>>
not_pipe_synth == <<mux_vars, det_vars, sm_vars, rl_vars, call_vars,
          ses_vars, up_vars, val_vars, off_vars, iv_vars,
          fin_vars,
          tts_vars,
          st_vars,
          dl_vars,
          tm_vars>>
not_dl == <<mux_vars, det_vars, sm_vars, synth_vars, rl_vars, call_vars,
          ses_vars, up_vars, val_vars, off_vars, iv_vars,
          fin_vars,
          tts_vars,
          st_vars,
          pipe_vars,
          tm_vars>>
not_tm == <<mux_vars, det_vars, sm_vars, synth_vars, rl_vars, call_vars,
          ses_vars, up_vars, val_vars, off_vars, iv_vars,
          fin_vars,
          tts_vars,
          st_vars,
          pipe_vars,
          dl_vars>>
not_tts == <<mux_vars, det_vars, sm_vars, synth_vars, rl_vars, call_vars,
          ses_vars, up_vars, val_vars, off_vars, iv_vars,
          fin_vars,
          st_vars,
          pipe_vars,
          dl_vars,
          tm_vars>>
not_st == <<mux_vars, det_vars, sm_vars, synth_vars, rl_vars, call_vars,
          ses_vars, up_vars, val_vars, off_vars, iv_vars,
          fin_vars,
          tts_vars,
          pipe_vars,
          dl_vars,
          tm_vars>>
not_ses_fin == <<mux_vars, det_vars, synth_vars, rl_vars, call_vars,
          up_vars, val_vars, off_vars, iv_vars, st_vars,
          tts_vars,
          pipe_vars,
          dl_vars,
          tm_vars>>
not_synth == <<video_duration, commentaries, pending, audio_buffer,
               chunk_index, chunk_start, audio_complete, chunk_queue, mux_pc,
               arrived, popped, create_failed, null_audio, dropped,
               det_vars, sm_vars, rl_vars,
               call_vars, ses_vars,
          up_vars,
          val_vars,
          off_vars,
          iv_vars,
          st_vars,
          fin_vars,
          tts_vars,
          pipe_vars,
          dl_vars,
          tm_vars>>

----------------------------------------------------------------------------
(* Each component is specified on its own; the others then stay as they are *)
(* before they are started.                                                 *)

\* None as the value of RateLimiter.last_request_time
NoTime == -1

\* The muxing stage before it is started.
MuxIdle ==
    /\ video_duration = 0
    /\ commentaries = {}
    /\ pending = {}
    /\ audio_queue = <<>>
    /\ audio_buffer = {}
    /\ chunk_index = 0
    /\ chunk_start = 0
    /\ audio_complete = FALSE
    /\ chunk_queue = <<>>
    /\ mux_pc = "done"
    /\ arrived = <<>>
    /\ popped = <<>>
    /\ create_failed = FALSE
    /\ null_audio = {}
    /\ dropped = {}

\* The detection stage before it is started.
DetIdle ==
    /\ clips = <<>>
    /\ det_i = 1
    /\ det_pc = "done"
    /\ all_events = <<>>
    /\ events_file = <<>>
    /\ time_analyzed = 0
    /\ detected = <<>>
    /\ last_done = 0

\* A StateManager nobody uses.
SmIdle ==
    /\ sm_time_analyzed = 0
    /\ sm_events = <<>>
    /\ sm_lock = 0
    /\ sm_op = <<>>
    /\ sm_calls = 0
    /\ sm_observed = <<>>

\* The synthesis stage before it is started.
SynthIdle ==
    /\ tts_available = FALSE
    /\ commentary_queue = <<>>
    /\ tasks = {}
    /\ running = {}
    /\ synth_pc = "done"

\* A RateLimiter nobody uses.
RlIdle ==
    /\ rl_now = 0
    /\ last_request_time = NoTime
    /\ rl_lock = 0
    /\ rl_pc = <<>>
    /\ rl_wake = <<>>
    /\ rl_read = <<>>
    /\ rl_calls = 0
    /\ rl_admitted = <<>>

\* No call to the external service under way.
CallIdle ==
    /\ call_kind = "none"
    /\ call_script = <<>>
    /\ call_attempt = 0
    /\ call_pc = "done"
    /\ call_result = "none"
    /\ call_delays = <<>>
    /\ call_requests = <<>>

\* No session under way.
SesIdle ==
    /\ ses_pc = "done"
    /\ ses_out = <<>>
    /\ ses_duration = 0
    /\ ses_clips = <<>>
    /\ ses_i = 1
    /\ ses_chunk_index = 0
    /\ ses_found = <<>>
    /\ ses_commentaries = {}
    /\ ses_audio = {}
    /\ ses_chunk_data = <<>>
    /\ ses_log = {}

\* No upload awaited.
UpIdle ==
    /\ up_pc = "idle"
    /\ up_retry_count = 0
    /\ up_seen_active = FALSE

\* No narration requested.
ValIdle ==
    /\ val_pc = "returned"
    /\ val_raw = <<>>
    /\ val_out = <<>>
    /\ val_tail = <<>>
    /\ val_batches = 0

\* No detection response under way.
OffIdle ==
    /\ off_pc = "returned"
    /\ off_clip = <<>>
    /\ off_raw = <<>>
    /\ off_time = <<>>

\* The segmenter is not running.
IvIdle ==
    /\ iv_pc = "returned"
    /\ iv_duration = 0
    /\ iv_interval = 0
    /\ iv_current_start = 0
    /\ iv_intervals = <<>>
    /\ iv_overflow = 0

\* No StateManager constructed.
StIdle ==
    /\ st_events = <<>>
    /\ st_commentary = <<>>
    /\ st_time_analyzed = 0
    /\ st_events_file = <<>>
    /\ st_commentary_file = <<>>
    /\ st_lock = 0
    /\ st_op = <<>>
    /\ st_calls = 0
    /\ st_log = <<>>

\* No chunk file and no final video.
FinIdle ==
    /\ fin_files = {}
    /\ fin_video = [made |-> FALSE, chunks |-> <<>>]

\* No synthesis task has run.
TtsIdle ==
    /\ tts_pc = "idle"
    /\ tts_item = 0
    /\ tts_outcomes = <<>>
    /\ tts_sleeps = <<>>
    /\ tts_audio = "None"
    /\ tts_queue = <<>>

\* The streaming stages are not running.
PipeIdle ==
    /\ pd_total = 0
    /\ pd_i = 0
    /\ pd_pc = "done"
    /\ event_queue = <<>>
    /\ nar_pc = "done"
    /\ nar_interval_index = 0
    /\ nar_todo = <<>>
    /\ ev_put = <<>>
    /\ com_put = <<>>

\* No overlay is being placed.
DelayIdle ==
    /\ dl_pc = "skipped"
    /\ dl_commentary_start = 0
    /\ dl_chunk_start = 0
    /\ dl_chunk_end = 0
    /\ dl_delay_ms = 0
    /\ dl_warned = FALSE

\* No time string is being converted.
TimeIdle ==
    /\ tm_pc = "parsed"
    /\ tm_seconds = 0
    /\ tm_text = <<>>
    /\ tm_parsed = 0

----------------------------------------------------------------------------
(* Units and helpers *)

Sec(n) == 20 * n

\* The end-of-stream marker (None) put on a queue.
NoneMarker == [start |-> -1, end |-> -1]

\* "no commentary" argument of _create_single_chunk for the final chunk.
NoCommentary == [start |-> -2, end |-> -2]

Commentary(s, e) == [start |-> Sec(s), end |-> Sec(e)]

----------------------------------------------------------------------------
(* Bounds of the muxing model *)

MaxItems == 3

\* Commentary segments a session may contain (seconds).
CommentaryUniverse ==
    { Commentary(0, 4), Commentary(5, 12), Commentary(8, 12),
      Commentary(14, 45), Commentary(40, 45), Commentary(48, 65),
      Commentary(48, 70), Commentary(12, 20) }

\* 65 s, 65.05 s and 12.05 s
DurationUniverse == { Sec(65), Sec(65) + 1, Sec(12) + 1 }

\* Narration output: start < end, strictly increasing, non-overlapping.
WellFormed(S) ==
    \A a \in S : a.start < a.end /\
        \A b \in S : (a # b) => (a.end <= b.start \/ b.end <= a.start)

----------------------------------------------------------------------------
(* Program constants of _create_video_chunks *)

\* "if earliest_start <= chunk_start + 5.0"
Tolerance == Sec(5)

\* "if chunk_duration < 0.1" (0.1 s = 2 ticks)
MinChunkDuration == 2

----------------------------------------------------------------------------
(* The heap: heapq orders (start_time, audio_data) by start_time *)

HeapMin(buf) == CHOOSE a \in buf : \A b \in buf : a.start <= b.start

HeapPush(buf, a) == buf \cup {a}

HeapPop(buf) == buf \ {HeapMin(buf)}

HasOverlayIgnoringAudio(commentary, audio_base64) == commentary

\* _create_single_chunk: "if commentary and audio_base64" mixes the speech
\* in, otherwise the chunk is the plain video segment.
HasOverlay(commentary, audio_base64) == commentary /\ audio_base64

Chunk(idx, s, e, c) ==
    [index |-> idx, start |-> s, end |-> e, commentary |-> c,
     overlay |-> HasOverlay(c # NoCommentary, c \notin null_audio)]

----------------------------------------------------------------------------
(* Synthesis as seen by the muxing stage: results arrive in any order, then  *)
(* the end-of-stream marker.                                                 *)

SynthDeliver(a) ==
    /\ a \in pending
    /\ pending' = pending \ {a}
    /\ audio_queue' = Append(audio_queue, a)
    /\ arrived' = Append(arrived, a)
    /\ UNCHANGED not_mux
    /\ UNCHANGED <<video_duration, commentaries, null_audio, dropped,
                   audio_buffer, chunk_index,
                   chunk_start, audio_complete, chunk_queue, mux_pc, popped,
                   create_failed>>

\* _generate_single_audio when generate_audio raised or returned no audio
\* (and the pass-through without a TTS generator): the item is queued with
\* audio_base64 None.
SynthDeliverNull(a) ==
    /\ a \in pending
    /\ pending' = pending \ {a}
    /\ audio_queue' = Append(audio_queue, a)
    /\ arrived' = Append(arrived, a)
    /\ null_audio' = null_audio \cup {a}
    /\ UNCHANGED not_mux
    /\ UNCHANGED <<video_duration, commentaries, dropped, audio_buffer,
                   chunk_index, chunk_start, audio_complete, chunk_queue,
                   mux_pc, popped, create_failed>>

SynthEnd ==
    /\ pending = {}
    /\ \A i \in 1..Len(audio_queue) : audio_queue[i] # NoneMarker
    /\ ~audio_complete
    /\ audio_queue' = Append(audio_queue, NoneMarker)
    /\ UNCHANGED not_mux
    /\ UNCHANGED <<video_duration, commentaries, null_audio, dropped,
                   arrived, pending, audio_buffer,
                   chunk_index, chunk_start, audio_complete, chunk_queue,
                   mux_pc, popped, create_failed>>

----------------------------------------------------------------------------
(* try_emit_next_chunk *)

\* The head of the heap may be consumed at the current chunk position.
CanPop(buf, cursor) ==
    buf # {} /\ HeapMin(buf).start <= cursor + Tolerance

\* "if chunk_duration < 0.1: ... return True"
TooShort(chunk_end, cursor) == chunk_end - cursor < MinChunkDuration

\* "if chunk_end > self.video_duration: chunk_end = self.video_duration"
ClampEnd(chunk_end, vd) == IF chunk_end > vd THEN vd ELSE chunk_end

\* Mutation of NextChunkStart: the cursor is not advanced after an emission.
NextChunkStartStale(cursor, chunk_end) == cursor

\* "chunk_start = chunk_end" after a successful emission
NextChunkStart(cursor, chunk_end) == chunk_end

\* try_emit_next_chunk returns False: nothing buffered, or the earliest
\* buffered item is beyond the tolerance.
MuxEmitNone ==
    /\ mux_pc = "emit"
    /\ ~CanPop(audio_buffer, chunk_start)
    /\ mux_pc' = "get"
    /\ UNCHANGED not_mux
    /\ UNCHANGED <<video_duration, commentaries, null_audio, dropped,
                   arrived, pending, audio_queue,
                   audio_buffer, chunk_index, chunk_start, audio_complete,
                   chunk_queue, popped, create_failed>>

\* The item is popped and dropped: its chunk would be shorter than 0.1 s.
MuxEmitSkip ==
    /\ mux_pc = "emit"
    /\ CanPop(audio_buffer, chunk_start)
    /\ TooShort(HeapMin(audio_buffer).end, chunk_start)
    /\ audio_buffer' = HeapPop(audio_buffer)
    /\ popped' = Append(popped, HeapMin(audio_buffer))
    /\ dropped' = dropped \cup {<<HeapMin(audio_buffer), "too_short">>}
    /\ UNCHANGED not_mux
    /\ UNCHANGED <<video_duration, commentaries, null_audio,
                   arrived, pending, audio_queue,
                   chunk_index, chunk_start, audio_complete, chunk_queue,
                   mux_pc, create_failed>>

\* The item is popped and its chunk [chunk_start, chunk_end) is emitted.
MuxEmitChunk ==
    /\ mux_pc = "emit"
    /\ CanPop(audio_buffer, chunk_start)
    /\ ~TooShort(HeapMin(audio_buffer).end, chunk_start)
    /\ LET a == HeapMin(audio_buffer)
           chunk_end == ClampEnd(a.end, video_duration)
       IN /\ audio_buffer' = HeapPop(audio_buffer)
          /\ popped' = Append(popped, a)
          /\ chunk_queue' =
                Append(chunk_queue,
                       Chunk(chunk_index, chunk_start, chunk_end, a))
          /\ chunk_start' = NextChunkStart(chunk_start, chunk_end)
          /\ chunk_index' = chunk_index + 1
    /\ UNCHANGED not_mux
    /\ UNCHANGED <<video_duration, commentaries, null_audio, dropped,
                   arrived, pending, audio_queue,
                   audio_complete, mux_pc, create_failed>>

\* The item is popped but _create_single_chunk raises: nothing is emitted
\* and the cursor stays ("return True  # Continue trying with next").
MuxEmitFail ==
    /\ mux_pc = "emit"
    /\ CanPop(audio_buffer, chunk_start)
    /\ ~TooShort(HeapMin(audio_buffer).end, chunk_start)
    /\ audio_buffer' = HeapPop(audio_buffer)
    /\ popped' = Append(popped, HeapMin(audio_buffer))
    /\ create_failed' = TRUE
    /\ dropped' = dropped \cup {<<HeapMin(audio_buffer), "ffmpeg">>}
    /\ UNCHANGED not_mux
    /\ UNCHANGED <<video_duration, commentaries, null_audio,
                   arrived, pending, audio_queue,
                   chunk_index, chunk_start, audio_complete, chunk_queue,
                   mux_pc>>

----------------------------------------------------------------------------
(* Main streaming loop *)

\* "while not audio_complete or audio_buffer"
LoopContinues(complete, buf) == ~complete \/ buf # {}

\* "if audio_complete and not audio_buffer: break" is never taken: the loop
\* condition has already ended the loop in that state (MuxGetNone), and it is
\* the guard the three actions below share.
BreakTaken(complete, buf) == complete /\ buf = {}

\* audio_queue.get() returns the end-of-stream marker.
MuxGetNone ==
    /\ mux_pc = "get"
    /\ ~BreakTaken(audio_complete, audio_buffer)
    /\ audio_queue # <<>> /\ Head(audio_queue) = NoneMarker
    /\ audio_queue' = Tail(audio_queue)
    /\ audio_complete' = TRUE
    /\ mux_pc' = IF LoopContinues(TRUE, audio_buffer) THEN "emit" ELSE "final"
    /\ UNCHANGED not_mux
    /\ UNCHANGED <<video_duration, commentaries, null_audio, dropped,
                   arrived, pending, audio_buffer,
                   chunk_index, chunk_start, chunk_queue, popped,
                   create_failed>>

\* audio_queue.get() returns a synthesis result: heappush.
MuxGetAudio ==
    /\ mux_pc = "get"
    /\ ~BreakTaken(audio_complete, audio_buffer)
    /\ audio_queue # <<>> /\ Head(audio_queue) # NoneMarker
    /\ audio_queue' = Tail(audio_queue)
    /\ audio_buffer' = HeapPush(audio_buffer, Head(audio_queue))
    /\ mux_pc' = "emit"
    /\ UNCHANGED not_mux
    /\ UNCHANGED <<video_duration, commentaries, null_audio, dropped,
                   arrived, pending, chunk_index,
                   chunk_start, audio_complete, chunk_queue, popped,
                   create_failed>>

\* asyncio.TimeoutError after 1 s with nothing on the queue: "continue".
MuxTimeout ==
    /\ mux_pc = "get"
    /\ ~BreakTaken(audio_complete, audio_buffer)
    /\ audio_queue = <<>>
    /\ mux_pc' = "emit"
    /\ UNCHANGED not_mux
    /\ UNCHANGED <<video_duration, commentaries, null_audio, dropped,
                   arrived, pending, audio_queue,
                   audio_buffer, chunk_index, chunk_start, audio_complete,
                   chunk_queue, popped, create_failed>>

----------------------------------------------------------------------------
(* Final chunk and completion *)

\* "if chunk_start < self.video_duration and final_chunk_duration >= 0.1"
NeedsFinalChunk(cursor, vd) ==
    cursor < vd /\ vd - cursor >= MinChunkDuration

MuxFinalChunk ==
    /\ mux_pc = "final"
    /\ NeedsFinalChunk(chunk_start, video_duration)
    /\ chunk_queue' = chunk_queue \o
          << Chunk(chunk_index, chunk_start, video_duration, NoCommentary),
             NoneMarker >>
    /\ chunk_index' = chunk_index + 1
    /\ mux_pc' = "done"
    /\ UNCHANGED not_mux
    /\ UNCHANGED <<video_duration, commentaries, null_audio, dropped,
                   arrived, pending, audio_queue,
                   audio_buffer, chunk_start, audio_complete, popped,
                   create_failed>>

\* The final _create_single_chunk raises: only the marker is put.
MuxFinalFail ==
    /\ mux_pc = "final"
    /\ NeedsFinalChunk(chunk_start, video_duration)
    /\ chunk_queue' = Append(chunk_queue, NoneMarker)
    /\ create_failed' = TRUE
    /\ mux_pc' = "done"
    /\ UNCHANGED not_mux
    /\ UNCHANGED <<video_duration, commentaries, null_audio, dropped,
                   arrived, pending, audio_queue,
                   audio_buffer, chunk_index, chunk_start, audio_complete,
                   popped>>

MuxFinalNone ==
    /\ mux_pc = "final"
    /\ ~NeedsFinalChunk(chunk_start, video_duration)
    /\ chunk_queue' = Append(chunk_queue, NoneMarker)
    /\ mux_pc' = "done"
    /\ UNCHANGED not_mux
    /\ UNCHANGED <<video_duration, commentaries, null_audio, dropped,
                   arrived, pending, audio_queue,
                   audio_buffer, chunk_index, chunk_start, audio_complete,
                   popped, create_failed>>

----------------------------------------------------------------------------
(* Specification of the muxing stage *)

InitMux ==
    /\ DetIdle /\ SmIdle /\ SynthIdle /\ RlIdle /\ CallIdle /\ SesIdle
    /\ TimeIdle
    /\ DelayIdle
    /\ PipeIdle
    /\ TtsIdle
    /\ FinIdle
    /\ StIdle
    /\ IvIdle
    /\ OffIdle
    /\ ValIdle
    /\ UpIdle
    /\ video_duration \in DurationUniverse
    /\ commentaries \in { S \in SUBSET CommentaryUniverse :
                              Cardinality(S) <= MaxItems /\ WellFormed(S) }
    /\ pending = commentaries
    /\ audio_queue = <<>>
    /\ audio_buffer = {}
    /\ chunk_index = 0
    /\ chunk_start = 0
    /\ audio_complete = FALSE
    /\ chunk_queue = <<>>
    /\ mux_pc = "emit"
    /\ arrived = <<>>
    /\ popped = <<>>
    /\ create_failed = FALSE
    /\ null_audio = {}
    /\ dropped = {}

SynthStep ==
    \/ SynthEnd
    \/ \E a \in CommentaryUniverse : SynthDeliver(a)
    \/ \E a \in CommentaryUniverse : SynthDeliverNull(a)

MuxStep ==
    \/ MuxEmitNone \/ MuxEmitSkip \/ MuxEmitChunk \/ MuxEmitFail
    \/ MuxGetNone \/ MuxGetAudio \/ MuxTimeout
    \/ MuxFinalChunk \/ MuxFinalFail \/ MuxFinalNone

NextMux == SynthStep \/ MuxStep

SpecMux == InitMux /\ [][NextMux]_vars

\* The event loop keeps running the muxing coroutine and the synthesis tasks.
FairSpecMux == SpecMux /\ WF_vars(MuxStep) /\ WF_vars(SynthStep)

----------------------------------------------------------------------------
(* Properties of the muxing stage *)

\* The chunks put on chunk_queue so far, without the end-of-stream marker.
IsChunk(c) == c # NoneMarker

Chunks == SelectSeq(chunk_queue, IsChunk)

\* The commentary segments in chronological order.
RECURSIVE SortedByStart(_)
SortedByStart(S) ==
    IF S = {} THEN <<>>
    ELSE LET m == HeapMin(S) IN <<m>> \o SortedByStart(S \ {m})

\* C1: the emitted chunks are contiguous and non-overlapping: the first one
\* starts at 0, every later one starts exactly at the end of the chunk
\* emitted before it, and no chunk starts before the end of an earlier one.
C1_ChunksContiguous ==
    /\ Chunks # <<>> => Chunks[1].start = 0
    /\ \A i \in 1..Len(Chunks) : Chunks[i].start <= Chunks[i].end
    /\ \A i \in 1..(Len(Chunks) - 1) : Chunks[i + 1].start = Chunks[i].end
    /\ \A i, j \in 1..Len(Chunks) : i < j => Chunks[i].end <= Chunks[j].start

\* C1 witness: two results arrived out of chronological order and both were
\* emitted as chunks.
C1_Witness ==
    /\ Len(Chunks) >= 2
    /\ \E i, j \in 1..Len(arrived) :
          /\ i < j /\ arrived[i].start > arrived[j].start
          /\ \E k, l \in 1..Len(Chunks) :
                /\ Chunks[k].commentary = arrived[i]
                /\ Chunks[l].commentary = arrived[j]

\* C2 (as claimed, for runs in which no chunk creation raised): when the
\* muxing stage has put its end-of-stream marker, the last emitted chunk ends
\* at the video's end.
C2_CoversVideoEnd ==
    (mux_pc = "done" /\ ~create_failed) =>
        /\ Chunks # <<>>
        /\ Chunks[Len(Chunks)].end = video_duration

\* C3 (as claimed): the items are consumed (popped from the reorder buffer) in
\* strictly increasing order of commentary start time, whatever the arrival
\* order.
C3_ConsumedChronologically ==
    \A i, j \in 1..Len(popped) : i < j => popped[i].start < popped[j].start

\* C4 (as claimed): once the synthesis end-of-stream marker has been received
\* with items still buffered, the muxing stage eventually terminates (puts
\* its own marker) with the buffer drained.
C4_DrainsAndTerminates ==
    (audio_complete /\ audio_buffer # {})
        ~> (mux_pc = "done" /\ audio_buffer = {})

\* C5 (as claimed, for runs in which no chunk creation raised): the finished
\* muxing stage has emitted exactly one chunk per commentary segment, ending
\* at that segment's end time, plus exactly one trailing chunk without
\* commentary that ends at the video's end.
C5_OneChunkPerSegment ==
    (mux_pc = "done" /\ ~create_failed) =>
        LET sorted == SortedByStart(commentaries)
            n == Len(sorted)
        IN /\ Len(Chunks) = n + 1
           /\ \A i \in 1..n : /\ Chunks[i].commentary = sorted[i]
                              /\ Chunks[i].end = sorted[i].end
           /\ Chunks[n + 1].commentary = NoCommentary
           /\ Chunks[n + 1].end = video_duration

----------------------------------------------------------------------------
(* Detection stage: video/time_utils.py, video/video_splitter.py and        *)
(* EventDetector.detect_events_rolling_window                               *)

MaxClips == 3

\* Raw (clip-relative) event times the detection collaborator may return.
RawTimes == { Sec(2), Sec(4) }

\* Video durations of 5 s, 5.05 s, 35 s, 35.05 s, ...: one to MaxClips clips.
DetDurations ==
    { Sec(30 * k) - Sec(25) + f : k \in 1..MaxClips, f \in {0, 1} }

\* interval_seconds=30 in split_video
IntervalSeconds == 30

\* int(x) of a time in ticks: whole seconds.
IntSec(t) == Sec(t \div Sec(1))

\* calculate_video_intervals, from current_start on
RECURSIVE IntervalsFrom(_, _, _)
IntervalsFrom(current_start, duration, interval) ==
    IF current_start < duration
    THEN LET e == current_start + interval
             current_end == IF e <= duration THEN e ELSE duration
         IN <<[start |-> current_start, end |-> current_end]>>
                \o IntervalsFrom(current_end, duration, interval)
    ELSE <<>>

calculate_video_intervals(duration, interval) ==
    IntervalsFrom(0, duration, interval)

\* split_video: one VideoClip(start_time=int(start), end_time=int(end)) per
\* interval
split_video(duration) ==
    LET iv == calculate_video_intervals(duration, Sec(IntervalSeconds))
    IN [k \in 1..Len(iv) |->
            [start |-> IntSec(iv[k].start), end |-> IntSec(iv[k].end)]]

\* detect_events_for_interval's post-processing: every event time is shifted
\* by interval_start.  The clip index is kept with the event for the
\* properties below.
CorrectedEvents(k, raw) ==
    LET RECURSIVE Build(_)
        Build(R) == IF R = {} THEN <<>>
                    ELSE LET m == CHOOSE x \in R : \A y \in R : x <= y
                         IN <<[clip |-> k, time |-> m + clips[k].start]>>
                                \o Build(R \ {m})
    IN Build(raw)

\* all_events.sort(key=lambda e: parse_time_to_seconds(e.time)): stable
RECURSIVE InsertByTime(_, _)
InsertByTime(sorted, e) ==
    IF sorted = <<>> THEN <<e>>
    ELSE IF Head(sorted).time <= e.time
         THEN <<Head(sorted)>> \o InsertByTime(Tail(sorted), e)
         ELSE <<e>> \o sorted

RECURSIVE SortByTime(_)
SortByTime(events) ==
    IF events = <<>> THEN <<>>
    ELSE InsertByTime(SortByTime(SubSeq(events, 1, Len(events) - 1)),
                      events[Len(events)])

\* Mutation of StepAfter: time_analyzed is updated before events.json is
\* written.
StepAfterAdvanceFirst(pc) ==
    CASE pc = "detect" -> "advance"
      [] pc = "advance" -> "save"
      [] pc = "save" -> "next"

\* The order of the statements of the try block: 1. analyze, 2. write
\* events.json, 3. update time_analyzed.
StepAfter(pc) ==
    CASE pc = "detect" -> "save"
      [] pc = "save" -> "advance"
      [] pc = "advance" -> "next"

\* The value _set_time_analyzed is called with.
WatermarkFor(clip) == clip.end

\* Leaving the try block of clip det_i: the loop goes on to the next clip,
\* or the function returns.
DetGoto(pc) ==
    IF pc = "next"
    THEN /\ last_done' = det_i
         /\ det_i' = det_i + 1
         /\ det_pc' = IF det_i < Len(clips) THEN "detect" ELSE "done"
    ELSE /\ det_pc' = pc
         /\ UNCHANGED <<det_i, last_done>>

\* detect_events_for_interval returns; all_events.extend(events)
DetectOk(raw) ==
    /\ det_pc = "detect"
    /\ all_events' = all_events \o CorrectedEvents(det_i, raw)
    /\ detected' = Append(detected, [ok |-> TRUE,
                                     events |-> CorrectedEvents(det_i, raw)])
    /\ DetGoto(StepAfter("detect"))
    /\ UNCHANGED <<clips, events_file, time_analyzed>>
    /\ UNCHANGED not_det

\* detect_events_for_interval raises for the first clip: Logic A re-raises.
DetectFailFirst ==
    /\ det_pc = "detect"
    /\ det_i = 1
    /\ detected' = Append(detected, [ok |-> FALSE, events |-> <<>>])
    /\ det_pc' = "raised"
    /\ UNCHANGED <<clips, det_i, all_events, events_file, time_analyzed,
                   last_done>>
    /\ UNCHANGED not_det

\* detect_events_for_interval raises for a later clip: Logic B logs the
\* failure and continues with the next clip.
DetectFailLater ==
    /\ det_pc = "detect"
    /\ det_i > 1
    /\ detected' = Append(detected, [ok |-> FALSE, events |-> <<>>])
    /\ DetGoto("next")
    /\ UNCHANGED <<clips, all_events, events_file, time_analyzed>>
    /\ UNCHANGED not_det

\* all_events.sort(...); self._save_events(all_events)
SaveEvents ==
    /\ det_pc = "save"
    /\ all_events' = SortByTime(all_events)
    /\ events_file' = SortByTime(all_events)
    /\ DetGoto(StepAfter("save"))
    /\ UNCHANGED <<clips, time_analyzed, detected>>
    /\ UNCHANGED not_det

\* self._set_time_analyzed(clip.end_time)
SetTimeAnalyzed ==
    /\ det_pc = "advance"
    /\ time_analyzed' = WatermarkFor(clips[det_i])
    /\ DetGoto(StepAfter("advance"))
    /\ UNCHANGED <<clips, all_events, events_file, detected>>
    /\ UNCHANGED not_det

\* The process dies between two steps: the files keep what was written.
DetCrash ==
    /\ det_pc \in {"save", "advance"}
    /\ det_pc' = "crashed"
    /\ UNCHANGED <<clips, det_i, all_events, events_file, time_analyzed,
                   detected, last_done>>
    /\ UNCHANGED not_det

InitDet ==
    /\ MuxIdle /\ SmIdle /\ SynthIdle /\ RlIdle /\ CallIdle /\ SesIdle
    /\ TimeIdle
    /\ DelayIdle
    /\ PipeIdle
    /\ TtsIdle
    /\ FinIdle
    /\ StIdle
    /\ IvIdle
    /\ OffIdle
    /\ ValIdle
    /\ UpIdle
    /\ \E d \in DetDurations : clips = split_video(d)
    /\ det_i = 1
    /\ det_pc = "detect"
    /\ all_events = <<>>
    /\ events_file = <<>>
    /\ time_analyzed = 0
    /\ detected = <<>>
    /\ last_done = 0

NextDet ==
    \/ \E raw \in SUBSET RawTimes : DetectOk(raw)
    \/ DetectFailFirst
    \/ DetectFailLater
    \/ SaveEvents
    \/ SetTimeAnalyzed
    \/ DetCrash

SpecDet == InitDet /\ [][NextDet]_vars

(* Properties of the detection stage *)

SeqToSet(q) == { q[i] : i \in 1..Len(q) }

\* C6: in every state (also after a crash between the two steps) events.json
\* holds the events of every clip that lies at or below the watermark.
C6_WriteThenAdvance ==
    \A k \in 1..Len(detected) :
        clips[k].end <= time_analyzed =>
            SeqToSet(detected[k].events) \subseteq SeqToSet(events_file)

\* C6 witness: the watermark stands at the end of clip 1, whose events are on
\* file, and the process died after writing the events of clip 2 and before
\* advancing the watermark.
C6_Witness ==
    /\ det_pc = "crashed" /\ det_i = 2
    /\ time_analyzed = clips[1].end
    /\ detected[1].events # <<>>
    /\ detected[2].events # <<>>
    /\ SeqToSet(detected[2].events) \subseteq SeqToSet(events_file)

\* C7 (as claimed): whenever the processing of clip k has ended, the
\* watermark equals the end time of clip k.
C7_WatermarkAtSegmentEnd ==
    (last_done >= 1 /\ det_pc \in {"detect", "done"}) =>
        time_analyzed = clips[last_done].end

----------------------------------------------------------------------------
(* StateManager: update_time_analyzed, get_time_analyzed, add_events        *)

SmCallers == 2

MaxSmCalls == 4

\* Values callers pass to update_time_analyzed (30 s, 60 s, 65 s).
WatermarkValues == { Sec(30), Sec(60), Sec(65) }

\* Event lists callers pass to add_events.
NewEventLists == { <<"e1">>, <<"e2", "e3">> }

SmIdleOp == [op |-> "idle"]

SmOps ==
    { [op |-> "update", new_time |-> t] : t \in WatermarkValues }
        \cup { [op |-> "get"] }
        \cup { [op |-> "add", new_events |-> l] : l \in NewEventLists }

\* "self._time_analyzed = new_time"
StoreTimeAnalyzed(old_time, new_time) == new_time

\* "async with self.lock": the caller enters one of the operations.
SmAcquire(c, o) ==
    /\ sm_op[c] = SmIdleOp
    /\ sm_lock = 0
    /\ sm_calls < MaxSmCalls
    /\ sm_lock' = c
    /\ sm_op' = [sm_op EXCEPT ![c] = o]
    /\ sm_calls' = sm_calls + 1
    /\ UNCHANGED <<sm_time_analyzed, sm_events, sm_observed>>
    /\ UNCHANGED not_sm

\* update_time_analyzed: body and release of the lock
UpdateTimeAnalyzed(c) ==
    /\ sm_lock = c
    /\ sm_op[c].op = "update"
    /\ sm_time_analyzed' =
          StoreTimeAnalyzed(sm_time_analyzed, sm_op[c].new_time)
    /\ sm_lock' = 0
    /\ sm_op' = [sm_op EXCEPT ![c] = SmIdleOp]
    /\ UNCHANGED <<sm_events, sm_calls, sm_observed>>
    /\ UNCHANGED not_sm

\* get_time_analyzed: body and release of the lock
GetTimeAnalyzed(c) ==
    /\ sm_lock = c
    /\ sm_op[c].op = "get"
    /\ sm_observed' = Append(sm_observed, sm_time_analyzed)
    /\ sm_lock' = 0
    /\ sm_op' = [sm_op EXCEPT ![c] = SmIdleOp]
    /\ UNCHANGED <<sm_time_analyzed, sm_events, sm_calls>>
    /\ UNCHANGED not_sm

\* add_events: self.events.extend(new_events), saved to events.json, and
\* release of the lock
AddEvents(c) ==
    /\ sm_lock = c
    /\ sm_op[c].op = "add"
    /\ sm_events' = sm_events \o sm_op[c].new_events
    /\ sm_lock' = 0
    /\ sm_op' = [sm_op EXCEPT ![c] = SmIdleOp]
    /\ UNCHANGED <<sm_time_analyzed, sm_calls, sm_observed>>
    /\ UNCHANGED not_sm

InitSm ==
    /\ MuxIdle /\ DetIdle /\ SynthIdle /\ RlIdle /\ CallIdle /\ SesIdle
    /\ TimeIdle
    /\ DelayIdle
    /\ PipeIdle
    /\ TtsIdle
    /\ FinIdle
    /\ StIdle
    /\ IvIdle
    /\ OffIdle
    /\ ValIdle
    /\ UpIdle
    /\ sm_time_analyzed = 0
    /\ sm_events = <<>>
    /\ sm_lock = 0
    /\ sm_op = [c \in 1..SmCallers |-> SmIdleOp]
    /\ sm_calls = 0
    /\ sm_observed = <<>>

NextSm ==
    \E c \in 1..SmCallers :
        \/ \E o \in SmOps : SmAcquire(c, o)
        \/ UpdateTimeAnalyzed(c)
        \/ GetTimeAnalyzed(c)
        \/ AddEvents(c)

SpecSm == InitSm /\ [][NextSm]_vars

(* Properties of the StateManager *)

\* C8 (as claimed): whatever the callers do, the values returned by
\* get_time_analyzed never decrease.
C8_WatermarkMonotonic ==
    \A i, j \in 1..Len(sm_observed) :
        i < j => sm_observed[i] <= sm_observed[j]

----------------------------------------------------------------------------
(* Synthesis stage: _generate_audio_parallel and _generate_single_audio     *)

MaxCommentaries == 6

\* "max_concurrent = 5  # ElevenLabs rate limit"
max_concurrent == 5

\* The i-th commentary put on commentary_queue by the narration stage.
CommentaryAt(i) == Commentary(10 * i, 10 * i + 6)

\* Mutation of AtLimit: the set of tasks may grow one beyond the limit.
AtLimitOffByOne(n) == n > max_concurrent

\* "if len(tasks) >= max_concurrent"
AtLimit(n) == n >= max_concurrent

\* commentary_queue.get() returns a commentary: a task is created for it and
\* added to tasks.
SynthCreateTask ==
    /\ tts_available
    /\ synth_pc = "get"
    /\ commentary_queue # <<>> /\ Head(commentary_queue) # NoneMarker
    /\ LET c == Head(commentary_queue)
       IN /\ tasks' = tasks \cup {c}
          /\ running' = running \cup {c}
          /\ synth_pc' = IF AtLimit(Cardinality(tasks \cup {c}))
                         THEN "wait" ELSE "get"
    /\ commentary_queue' = Tail(commentary_queue)
    /\ UNCHANGED <<tts_available, audio_queue>>
    /\ UNCHANGED not_synth

\* A _generate_single_audio task finishes: the result (with or without
\* audio) is put on audio_queue.
TaskComplete(c) ==
    /\ c \in running
    /\ running' = running \ {c}
    /\ audio_queue' = Append(audio_queue, c)
    /\ UNCHANGED <<tts_available, commentary_queue, tasks, synth_pc>>
    /\ UNCHANGED not_synth

\* "done, tasks = await asyncio.wait(tasks, return_when=FIRST_COMPLETED)"
SynthWaitFirst ==
    /\ synth_pc = "wait"
    /\ \E c \in tasks : c \notin running
    /\ tasks' = tasks \cap running
    /\ synth_pc' = "get"
    /\ UNCHANGED <<tts_available, commentary_queue, running, audio_queue>>
    /\ UNCHANGED not_synth

\* commentary_queue.get() returns None: "break"
SynthGetNone ==
    /\ tts_available
    /\ synth_pc = "get"
    /\ commentary_queue # <<>> /\ Head(commentary_queue) = NoneMarker
    /\ commentary_queue' = Tail(commentary_queue)
    /\ synth_pc' = "gather"
    /\ UNCHANGED <<tts_available, tasks, running, audio_queue>>
    /\ UNCHANGED not_synth

\* "await asyncio.gather(*tasks, ...)", then "await audio_queue.put(None)"
SynthGather ==
    /\ synth_pc = "gather"
    /\ tasks \cap running = {}
    /\ audio_queue' = Append(audio_queue, NoneMarker)
    /\ synth_pc' = "done"
    /\ UNCHANGED <<tts_available, commentary_queue, tasks, running>>
    /\ UNCHANGED not_synth

\* The body of the while loop raises after commentary_queue.get() returned
\* a commentary and before its task exists: "except Exception" puts None on
\* audio_queue at once; the tasks created earlier keep running.
SynthStageRaise ==
    /\ tts_available
    /\ synth_pc = "get"
    /\ commentary_queue # <<>> /\ Head(commentary_queue) # NoneMarker
    /\ commentary_queue' = Tail(commentary_queue)
    /\ audio_queue' = Append(audio_queue, NoneMarker)
    /\ synth_pc' = "done"
    /\ UNCHANGED <<tts_available, tasks, running>>
    /\ UNCHANGED not_synth

\* No TTS generator: a commentary is passed through without audio.
SynthPassThrough ==
    /\ ~tts_available
    /\ synth_pc = "get"
    /\ commentary_queue # <<>> /\ Head(commentary_queue) # NoneMarker
    /\ audio_queue' = Append(audio_queue, Head(commentary_queue))
    /\ commentary_queue' = Tail(commentary_queue)
    /\ UNCHANGED <<tts_available, tasks, running, synth_pc>>
    /\ UNCHANGED not_synth

\* No TTS generator: None ends the pass-through loop.
SynthPassNone ==
    /\ ~tts_available
    /\ synth_pc = "get"
    /\ commentary_queue # <<>> /\ Head(commentary_queue) = NoneMarker
    /\ commentary_queue' = Tail(commentary_queue)
    /\ audio_queue' = Append(audio_queue, NoneMarker)
    /\ synth_pc' = "done"
    /\ UNCHANGED <<tts_available, tasks, running>>
    /\ UNCHANGED not_synth

InitSynth ==
    /\ DetIdle /\ SmIdle /\ RlIdle /\ CallIdle /\ SesIdle /\ UpIdle
    /\ TimeIdle
    /\ DelayIdle
    /\ PipeIdle
    /\ TtsIdle
    /\ FinIdle
    /\ StIdle
    /\ IvIdle
    /\ OffIdle
    /\ ValIdle
    /\ tts_available \in BOOLEAN
    /\ \E n \in 0..MaxCommentaries :
          /\ commentary_queue =
                 [i \in 1..n |-> CommentaryAt(i)] \o <<NoneMarker>>
          /\ commentaries = { CommentaryAt(i) : i \in 1..n }
    /\ tasks = {}
    /\ running = {}
    /\ synth_pc = "get"
    /\ video_duration = 0
    /\ pending = {}
    /\ audio_queue = <<>>
    /\ audio_buffer = {}
    /\ chunk_index = 0
    /\ chunk_start = 0
    /\ audio_complete = FALSE
    /\ chunk_queue = <<>>
    /\ mux_pc = "done"
    /\ arrived = <<>>
    /\ popped = <<>>
    /\ create_failed = FALSE
    /\ null_audio = {}
    /\ dropped = {}

NextSynth ==
    \/ SynthCreateTask
    \/ \E i \in 1..MaxCommentaries : TaskComplete(CommentaryAt(i))
    \/ SynthWaitFirst
    \/ SynthGetNone
    \/ SynthGather
    \/ SynthStageRaise
    \/ SynthPassThrough
    \/ SynthPassNone

SpecSynth == InitSynth /\ [][NextSynth]_vars

(* Properties of the synthesis stage *)

\* C9: at every moment at most 5 synthesis requests are in flight.
C9_BoundedParallelism == Cardinality(running) <= 5

\* C9 witness: five requests are in flight while more commentaries wait on
\* commentary_queue.
C9_Witness ==
    /\ Cardinality(running) = 5
    /\ Len(commentary_queue) >= 2

----------------------------------------------------------------------------
(* RateLimiter (utils/rate_limiter.py).  Its clock counts half seconds.     *)

RlThreads == 2

MaxRlCalls == 3

MaxRlTime == 27

\* gemini_rate_limiter = RateLimiter(requests_per_minute=10, ...)
requests_per_minute == 10

\* ... safety_buffer=0.5): one half second
safety_buffer == 1

\* n seconds on the limiter's clock
RlSec(n) == 2 * n

\* "self.min_delay = 60.0 / requests_per_minute"
min_delay == RlSec(60) \div requests_per_minute

\* "required_delay = self.min_delay + self.safety_buffer"
required_delay == min_delay + safety_buffer

\* "elapsed = current_time - self.last_request_time"
Elapsed(current_time) == current_time - last_request_time

\* Mutation of TimeAfterSleep: the time read before sleeping is recorded.
TimeBeforeSleep(current_time, now) == current_time

\* "self.last_request_time = time.time()" after time.sleep
TimeAfterSleep(current_time, now) == now

\* An entry of the history: a call let through at time t after sleeping for
\* slept, first telling whether last_request_time was None.
Admitted(t, slept, first) ==
    [kind |-> "call", time |-> t, slept |-> slept, first |-> first]

ResetMark == [kind |-> "reset", time |-> 0, slept |-> 0, first |-> FALSE]

\* First request: "if self.last_request_time is None"
RlFirstCall(t) ==
    /\ rl_pc[t] = "idle" /\ rl_lock = 0 /\ rl_calls < MaxRlCalls
    /\ last_request_time = NoTime
    /\ last_request_time' = rl_now
    /\ rl_admitted' = Append(rl_admitted, Admitted(rl_now, 0, TRUE))
    /\ rl_calls' = rl_calls + 1
    /\ UNCHANGED <<rl_now, rl_lock, rl_pc, rl_wake, rl_read>>
    /\ UNCHANGED not_rl

\* Enough time has passed: "self.last_request_time = current_time"
RlNoWait(t) ==
    /\ rl_pc[t] = "idle" /\ rl_lock = 0 /\ rl_calls < MaxRlCalls
    /\ last_request_time # NoTime
    /\ ~(Elapsed(rl_now) < required_delay)
    /\ last_request_time' = rl_now
    /\ rl_admitted' = Append(rl_admitted, Admitted(rl_now, 0, FALSE))
    /\ rl_calls' = rl_calls + 1
    /\ UNCHANGED <<rl_now, rl_lock, rl_pc, rl_wake, rl_read>>
    /\ UNCHANGED not_rl

\* Too fast: time.sleep(required_delay - elapsed), with the lock held
RlStartSleep(t) ==
    /\ rl_pc[t] = "idle" /\ rl_lock = 0 /\ rl_calls < MaxRlCalls
    /\ last_request_time # NoTime
    /\ Elapsed(rl_now) < required_delay
    /\ rl_lock' = t
    /\ rl_pc' = [rl_pc EXCEPT ![t] = "sleeping"]
    /\ rl_read' = [rl_read EXCEPT ![t] = rl_now]
    /\ rl_wake' = [rl_wake EXCEPT ![t] =
                      rl_now + (required_delay - Elapsed(rl_now))]
    /\ rl_calls' = rl_calls + 1
    /\ UNCHANGED <<rl_now, last_request_time, rl_admitted>>
    /\ UNCHANGED not_rl

\* time.sleep returns (no earlier than asked): the call time is recorded and
\* the lock released.
RlEndSleep(t) ==
    /\ rl_pc[t] = "sleeping" /\ rl_lock = t
    /\ rl_now >= rl_wake[t]
    /\ last_request_time' = TimeAfterSleep(rl_read[t], rl_now)
    /\ rl_admitted' = Append(rl_admitted,
                             Admitted(rl_now, rl_wake[t] - rl_read[t], FALSE))
    /\ rl_lock' = 0
    /\ rl_pc' = [rl_pc EXCEPT ![t] = "idle"]
    /\ UNCHANGED <<rl_now, rl_wake, rl_read, rl_calls>>
    /\ UNCHANGED not_rl

\* reset()
RlReset ==
    /\ rl_lock = 0 /\ rl_calls < MaxRlCalls
    /\ last_request_time' = NoTime
    /\ rl_admitted' = Append(rl_admitted, ResetMark)
    /\ rl_calls' = rl_calls + 1
    /\ UNCHANGED <<rl_now, rl_lock, rl_pc, rl_wake, rl_read>>
    /\ UNCHANGED not_rl

\* Time passes.
RlTick ==
    /\ rl_now < MaxRlTime
    /\ rl_now' = rl_now + 1
    /\ UNCHANGED <<last_request_time, rl_lock, rl_pc, rl_wake, rl_read,
                   rl_calls, rl_admitted>>
    /\ UNCHANGED not_rl

InitRl ==
    /\ MuxIdle /\ DetIdle /\ SmIdle /\ SynthIdle /\ CallIdle /\ SesIdle
    /\ TimeIdle
    /\ DelayIdle
    /\ PipeIdle
    /\ TtsIdle
    /\ FinIdle
    /\ StIdle
    /\ IvIdle
    /\ OffIdle
    /\ ValIdle
    /\ UpIdle
    /\ rl_now = 0
    /\ last_request_time = NoTime
    /\ rl_lock = 0
    /\ rl_pc = [t \in 1..RlThreads |-> "idle"]
    /\ rl_wake = [t \in 1..RlThreads |-> 0]
    /\ rl_read = [t \in 1..RlThreads |-> 0]
    /\ rl_calls = 0
    /\ rl_admitted = <<>>

NextRl ==
    \/ \E t \in 1..RlThreads :
          RlFirstCall(t) \/ RlNoWait(t) \/ RlStartSleep(t) \/ RlEndSleep(t)
    \/ RlReset
    \/ RlTick

SpecRl == InitRl /\ [][NextRl]_vars

(* Properties of the RateLimiter *)

\* 60/R + B for the configured limiter: 6.5 s
ClaimedSpacing == RlSec(60) \div 10 + 1

\* C10: two calls let through one after the other (no reset in between) are
\* at least 60/R + B apart; the recorded call time is the time of the call
\* let through last; and the first call after construction or reset does not
\* wait.
C10_CallsSpaced ==
    /\ \A i \in 1..(Len(rl_admitted) - 1) :
          (rl_admitted[i].kind = "call" /\ rl_admitted[i + 1].kind = "call")
              => /\ rl_admitted[i + 1].time - rl_admitted[i].time
                        >= ClaimedSpacing
                 /\ ~rl_admitted[i + 1].first
    /\ \A i \in 1..Len(rl_admitted) :
          (rl_admitted[i].kind = "call"
              /\ (i = 1 \/ rl_admitted[i - 1].kind = "reset"))
              => (rl_admitted[i].first /\ rl_admitted[i].slept = 0)
    /\ (rl_admitted # <<>> /\ rl_admitted[Len(rl_admitted)].kind = "call")
          => last_request_time = rl_admitted[Len(rl_admitted)].time

\* C10 witness: two threads called right after the first call; both were
\* held back, one after the other.
C10_Witness ==
    /\ Len(rl_admitted) = 3
    /\ \A i \in 1..3 : rl_admitted[i].kind = "call"
    /\ rl_admitted[2].slept > 0
    /\ rl_admitted[3].slept > 0

----------------------------------------------------------------------------
(* One call to the external service.                                        *)
(*                                                                          *)
(* Detection: EventDetector.detect_events_for_interval issues the request   *)
(* inside a try block.  Narration: CommentaryGenerator                      *)
(* ._call_gemini_api_with_retry is wrapped by tenacity's                    *)
(*   @retry(retry=retry_if_exception_type(ResourceExhausted),               *)
(*          wait=wait_exponential(multiplier=2, min=4, max=60),             *)
(*          stop=stop_after_attempt(5)).                                    *)
(* The service's answers are fixed beforehand by call_script; delays are    *)
(* in whole seconds.                                                        *)

\* Length of the script of answers.
MaxScript == 6

\* A request succeeds, raises ResourceExhausted, or raises something else.
Outcomes == {"ok", "quota", "other"}

Scripts == [1..MaxScript -> Outcomes]

\* stop_after_attempt(5)
max_attempts == 5

\* wait_exponential(multiplier=2, min=4, max=60)
wait_multiplier == 2

wait_min == 4

wait_max == 60

RECURSIVE Pow2(_)
Pow2(n) == IF n <= 0 THEN 1 ELSE 2 * Pow2(n - 1)

MinOf(a, b) == IF a <= b THEN a ELSE b

MaxOf(a, b) == IF a >= b THEN a ELSE b

\* The delay after the attempt numbered n (1-based) has failed.
wait_exponential(n) ==
    MaxOf(wait_min, MinOf(wait_multiplier * Pow2(n - 1), wait_max))

RetryAnyException(outcome) == outcome # "ok"

\* retry=retry_if_exception_type(ResourceExhausted)
retry_if_exception_type(outcome) == outcome = "quota"

stop_after_attempt(n) == n >= max_attempts

\* The request itself; the code calls the service without consulting
\* gemini_rate_limiter, so the number of limiter calls is whatever it was.
IssueRequest ==
    /\ call_pc = "request"
    /\ call_attempt < MaxScript
    /\ call_attempt' = call_attempt + 1
    /\ call_requests' = Append(call_requests, [limiter_calls |-> rl_calls])

\* response.text is returned.
NarrationRequestOk ==
    /\ call_kind = "narration"
    /\ IssueRequest
    /\ call_script[call_attempt'] = "ok"
    /\ call_pc' = "done"
    /\ call_result' = "ok"
    /\ UNCHANGED <<call_kind, call_script, call_delays>>
    /\ UNCHANGED not_call

\* An exception that is not retried propagates as it is.
NarrationRequestRaise ==
    /\ call_kind = "narration"
    /\ IssueRequest
    /\ call_script[call_attempt'] # "ok"
    /\ ~retry_if_exception_type(call_script[call_attempt'])
    /\ call_pc' = "done"
    /\ call_result' = call_script[call_attempt']
    /\ UNCHANGED <<call_kind, call_script, call_delays>>
    /\ UNCHANGED not_call

\* A retried exception after the last allowed attempt: tenacity gives up.
NarrationGiveUp ==
    /\ call_kind = "narration"
    /\ IssueRequest
    /\ call_script[call_attempt'] # "ok"
    /\ retry_if_exception_type(call_script[call_attempt'])
    /\ stop_after_attempt(call_attempt')
    /\ call_pc' = "done"
    /\ call_result' = "RetryError"
    /\ UNCHANGED <<call_kind, call_script, call_delays>>
    /\ UNCHANGED not_call

\* A retried exception with attempts left: sleep, then try again.
NarrationBackoff ==
    /\ call_kind = "narration"
    /\ IssueRequest
    /\ call_script[call_attempt'] # "ok"
    /\ retry_if_exception_type(call_script[call_attempt'])
    /\ ~stop_after_attempt(call_attempt')
    /\ call_pc' = "backoff"
    /\ UNCHANGED <<call_kind, call_script, call_result, call_delays>>
    /\ UNCHANGED not_call

NarrationSleep ==
    /\ call_kind = "narration"
    /\ call_pc = "backoff"
    /\ call_delays' = Append(call_delays, wait_exponential(call_attempt))
    /\ call_pc' = "request"
    /\ UNCHANGED <<call_kind, call_script, call_attempt, call_result,
                   call_requests>>
    /\ UNCHANGED not_call

\* events_output.events is returned.
DetectionRequestOk ==
    /\ call_kind = "detection"
    /\ IssueRequest
    /\ call_script[call_attempt'] = "ok"
    /\ call_pc' = "done"
    /\ call_result' = "ok"
    /\ UNCHANGED <<call_kind, call_script, call_delays>>
    /\ UNCHANGED not_call

\* "except Exception as e: raise RuntimeError(...)": no second attempt.
DetectionRequestFail ==
    /\ call_kind = "detection"
    /\ IssueRequest
    /\ call_script[call_attempt'] # "ok"
    /\ call_pc' = "done"
    /\ call_result' = "RuntimeError"
    /\ UNCHANGED <<call_kind, call_script, call_delays>>
    /\ UNCHANGED not_call

InitCall ==
    /\ call_kind \in {"detection", "narration"}
    /\ call_script \in Scripts
    /\ call_attempt = 0
    /\ call_pc = "request"
    /\ call_result = "none"
    /\ call_delays = <<>>
    /\ call_requests = <<>>
    /\ MuxIdle /\ DetIdle /\ SmIdle /\ SynthIdle /\ RlIdle /\ SesIdle
    /\ TimeIdle
    /\ DelayIdle
    /\ PipeIdle
    /\ TtsIdle
    /\ FinIdle
    /\ StIdle
    /\ IvIdle
    /\ OffIdle
    /\ ValIdle
    /\ UpIdle

NextCall ==
    \/ NarrationRequestOk
    \/ NarrationRequestRaise
    \/ NarrationGiveUp
    \/ NarrationBackoff
    \/ NarrationSleep
    \/ DetectionRequestOk
    \/ DetectionRequestFail

SpecCall == InitCall /\ [][NextCall]_vars

----------------------------------------------------------------------------
(* Properties of the external calls *)

\* C11 (as claimed): every request of the detection and of the narration
\* stage is preceded by a wait on the shared RateLimiter, i.e. by the time
\* the i-th request is issued the limiter has been called at least i times.
C11_RequestsRateLimited ==
    \A i \in DOMAIN call_requests : call_requests[i].limiter_calls >= i

\* The answers given to the requests issued so far.
Answers == [i \in 1..call_attempt |-> call_script[i]]

\* C12: the narration call is attempted at most 5 times; an attempt is
\* followed by another one only if it raised the quota error; any other
\* exception ends the call at once and is what the caller sees.
C12_RetryOnlyOnQuota ==
    (call_kind = "narration") =>
        /\ call_attempt <= 5
        /\ \A i \in 1..(call_attempt - 1) : Answers[i] = "quota"
        /\ (call_attempt >= 1 /\ Answers[call_attempt] = "other") =>
               (call_pc = "done" /\ call_result = "other")
        /\ (call_attempt = 1 /\ Answers[1] # "quota") => call_pc = "done"

\* C12 witness: two quota errors were retried, the third attempt raised
\* another exception, which ended the call.
C12_Witness ==
    /\ call_kind = "narration"
    /\ call_pc = "done"
    /\ call_attempt = 3
    /\ call_result = "other"
    /\ Len(call_delays) = 2

\* The service fails with the quota error 4 times and then succeeds.
FourQuotaThenOk ==
    /\ \A i \in 1..4 : call_script[i] = "quota"
    /\ call_script[5] = "ok"

\* C13 (as claimed): a detection call whose request fails with a quota error
\* 4 times and then succeeds is retried exactly 4 times, with non-decreasing
\* delays, and returns the successful result.
C13_DetectionRetried ==
    (call_kind = "detection" /\ call_pc = "done" /\ FourQuotaThenOk) =>
        /\ call_attempt = 5
        /\ Len(call_delays) = 4
        /\ \A i \in 1..(Len(call_delays) - 1) :
               call_delays[i] <= call_delays[i + 1]
        /\ call_result = "ok"

----------------------------------------------------------------------------
(* One session: StreamingPipeline.process_video_stream, an async generator  *)
(* whose body is one try block; every exception raised in it is answered    *)
(* by a single 'error' event.  Each segment is taken through                *)
(* _process_segment_and_emit before the next one is looked at.              *)
(*                                                                          *)
(* The pipeline constructs EventDetector with a state_manager and calls     *)
(* its _update_state; the detector under analysis/event_detector.py has     *)
(* neither, so _update_state is modelled from the specification of the      *)
(* detection stage (append the events, then advance the watermark), and a   *)
(* failing set-up is one of the ways a session starts.                      *)

MaxSegments == 3

\* Video durations of 5 s, 5.05 s, 35 s, 35.05 s, ...
SesDurations ==
    { Sec(30 * k) - Sec(25) + f : k \in 1..MaxSegments, f \in {0, 1} }

\* seconds_to_time: "HH:MM:SS" as <<hours, minutes, secs>>, fractions dropped
seconds_to_time(t) ==
    LET remaining == t % Sec(3600)
    IN <<t \div Sec(3600), remaining \div Sec(60),
         (remaining % Sec(60)) \div Sec(1)>>

\* parse_time_to_seconds of an "HH:MM:SS" string, in ticks
parse_time_to_seconds(hms) == Sec(hms[1] * 3600 + hms[2] * 60 + hms[3])

StatusEvent(progress) ==
    [type |-> "status", progress |-> progress]

ChunkReadyEvent(chunk_data) ==
    [type |-> "chunk_ready", index |-> chunk_data.index,
     start_time |-> chunk_data.start_time, end_time |-> chunk_data.end_time,
     overlays |-> chunk_data.overlays]

\* Mutation of CompleteEvent: the count reported is one more than counted.
CompleteEventOneMore(chunk_count) ==
    [type |-> "complete", chunks |-> chunk_count + 1]

\* "yield {'type': 'complete', 'chunks': chunk_index, ...}"
CompleteEvent(chunk_count) ==
    [type |-> "complete", chunks |-> chunk_count]

ErrorSwallowed(out, cause) == out

\* "except Exception as e: ... yield {'type': 'error', ...}"
ErrorEvents(out, cause) == Append(out, [type |-> "error", message |-> cause])

\* An exception raised inside the try block.
SesRaise(cause) ==
    /\ ses_out' = ErrorEvents(ses_out, cause)
    /\ ses_log' = ses_log \cup {<<"fatal", cause>>}
    /\ ses_pc' = "done"

\* What the narration may return for a clip: nothing, a commentary inside
\* the clip, or also one whose start lies beyond the clip's end.
NarrationOutputs(clip) ==
    { {},
      { [start |-> clip.start + Sec(1), end |-> clip.start + Sec(3)] },
      { [start |-> clip.start + Sec(1), end |-> clip.start + Sec(3)],
        [start |-> clip.end + Sec(1), end |-> clip.end + Sec(3)] } }

\* What the detection may return for clip k: no event, or one event 2 s
\* into the clip (its time already shifted by the clip's start).
DetectionOutputs(k, clip) ==
    { <<>>, <<[clip |-> k, time |-> clip.start + Sec(2)]>> }

\* Session set-up up to the first status event.
SesStart ==
    /\ ses_pc = "start"
    /\ ses_out' = Append(ses_out, StatusEvent(0))
    /\ ses_pc' = "prepare"
    /\ UNCHANGED <<ses_duration, ses_clips, ses_i, ses_chunk_index, ses_found,
                   ses_commentaries, ses_audio, ses_chunk_data, ses_log>>
    /\ UNCHANGED <<sm_vars, not_ses>>

\* The set-up raises (output directory, StateManager, the components).
SesStartFail ==
    /\ ses_pc = "start"
    /\ SesRaise("setup")
    /\ UNCHANGED <<ses_duration, ses_clips, ses_i, ses_chunk_index, ses_found,
                   ses_commentaries, ses_audio, ses_chunk_data>>
    /\ UNCHANGED <<sm_vars, not_ses>>

\* "raise FileNotFoundError"
SesFileMissing ==
    /\ ses_pc = "prepare"
    /\ SesRaise("file")
    /\ UNCHANGED <<ses_duration, ses_clips, ses_i, ses_chunk_index, ses_found,
                   ses_commentaries, ses_audio, ses_chunk_data>>
    /\ UNCHANGED <<sm_vars, not_ses>>

\* Status 5, the duration is read, status 10.
SesPrepare ==
    /\ ses_pc = "prepare"
    /\ ses_out' = ses_out \o <<StatusEvent(5), StatusEvent(10)>>
    /\ ses_pc' = "split"
    /\ UNCHANGED <<ses_duration, ses_clips, ses_i, ses_chunk_index, ses_found,
                   ses_commentaries, ses_audio, ses_chunk_data, ses_log>>
    /\ UNCHANGED <<sm_vars, not_ses>>

\* The subsequence of q at the positions not in failed.
RECURSIVE Without(_, _, _)
Without(q, failed, k) ==
    IF k > Len(q) THEN <<>>
    ELSE (IF k \in failed THEN <<>> ELSE <<q[k]>>) \o Without(q, failed, k + 1)

SplitOutcomeSkipping(all, failed) ==
    [raised |-> FALSE, clips |-> Without(all, failed, 1)]

\* VideoSplitter.split_video when the extraction of the clips in failed does
\* not succeed: "raise RuntimeError(f'Failed to create clip {i}: {e}')"
\* leaves the function without a list.
SplitOutcome(all, failed) ==
    [raised |-> failed # {}, clips |-> IF failed = {} THEN all ELSE <<>>]

\* split_video returned; status 15; the uploads are started.
SesSplitOk ==
    /\ ses_pc = "split"
    /\ \E failed \in SUBSET (1..Len(split_video(ses_duration))) :
          LET r == SplitOutcome(split_video(ses_duration), failed)
          IN /\ ~r.raised
             /\ ses_clips' = r.clips
             /\ ses_log' = ses_log \cup {<<"split_fail", k>> : k \in failed}
    /\ ses_out' = Append(ses_out, StatusEvent(15))
    /\ ses_i' = 1
    /\ ses_chunk_index' = 0
    /\ ses_pc' = "segment"
    /\ UNCHANGED <<ses_duration, ses_found, ses_commentaries, ses_audio,
                   ses_chunk_data>>
    /\ UNCHANGED <<sm_vars, not_ses>>

\* split_video raised.
SesSplitFail ==
    /\ ses_pc = "split"
    /\ \E failed \in SUBSET (1..Len(split_video(ses_duration))) :
          /\ SplitOutcome(split_video(ses_duration), failed).raised
          /\ ses_log' = ses_log \cup {<<"fatal", "split">>}
                                \cup {<<"split_fail", k>> : k \in failed}
    /\ ses_out' = ErrorEvents(ses_out, "split")
    /\ ses_pc' = "done"
    /\ UNCHANGED <<ses_duration, ses_clips, ses_i, ses_chunk_index, ses_found,
                   ses_commentaries, ses_audio, ses_chunk_data>>
    /\ UNCHANGED <<sm_vars, not_ses>>

\* _upload_clip.  The uploads run as background tasks and are awaited in
\* clip order; what one of them does depends on the service only, so the
\* task of clip i is followed from the moment it is awaited.
max_retries == 60

BudgetNeverSpent(retry_count) == FALSE

\* "if retry_count == max_retries: raise TimeoutError"
BudgetSpent(retry_count) == retry_count = max_retries

\* "client.files.upload" returned; "retry_count = 0".
UpStart ==
    /\ ses_pc = "segment"
    /\ ses_i <= Len(ses_clips)
    /\ up_pc = "idle"
    /\ up_pc' = "poll"
    /\ up_retry_count' = 0
    /\ up_seen_active' = FALSE
    /\ UNCHANGED <<ses_vars, sm_vars, not_ses_up>>

\* "client.files.upload" or "client.files.get" raised.
UpRaise ==
    /\ ses_pc = "segment"
    /\ ses_i <= Len(ses_clips)
    /\ \/ up_pc = "idle"
       \/ up_pc = "poll" /\ up_retry_count < max_retries
    /\ up_pc' = "raised"
    /\ UNCHANGED <<up_retry_count, up_seen_active>>
    /\ UNCHANGED <<ses_vars, sm_vars, not_ses_up>>

\* A poll inside "while retry_count < max_retries" sees ACTIVE: "break".
UpPollActive ==
    /\ up_pc = "poll"
    /\ up_retry_count < max_retries
    /\ up_seen_active' = TRUE
    /\ up_pc' = "after_loop"
    /\ UNCHANGED up_retry_count
    /\ UNCHANGED <<ses_vars, sm_vars, not_ses_up>>

\* A poll sees another state: "await asyncio.sleep(1); retry_count += 1".
UpPollWait ==
    /\ up_pc = "poll"
    /\ up_retry_count < max_retries
    /\ up_retry_count' = up_retry_count + 1
    /\ UNCHANGED <<up_pc, up_seen_active>>
    /\ UNCHANGED <<ses_vars, sm_vars, not_ses_up>>

\* The loop condition is false.
UpLoopEnd ==
    /\ up_pc = "poll"
    /\ ~(up_retry_count < max_retries)
    /\ up_pc' = "after_loop"
    /\ UNCHANGED <<up_retry_count, up_seen_active>>
    /\ UNCHANGED <<ses_vars, sm_vars, not_ses_up>>

\* "raise TimeoutError(...)"
UpTimeout ==
    /\ up_pc = "after_loop"
    /\ BudgetSpent(up_retry_count)
    /\ up_pc' = "timeout"
    /\ UNCHANGED <<up_retry_count, up_seen_active>>
    /\ UNCHANGED <<ses_vars, sm_vars, not_ses_up>>

\* "return uploaded_file.uri"
UpReturn ==
    /\ up_pc = "after_loop"
    /\ ~BudgetSpent(up_retry_count)
    /\ up_pc' = "returned"
    /\ UNCHANGED <<up_retry_count, up_seen_active>>
    /\ UNCHANGED <<ses_vars, sm_vars, not_ses_up>>

\* "file_uri = await upload_tasks[i]", then the status event.
SesUploadReady ==
    /\ ses_pc = "segment"
    /\ ses_i <= Len(ses_clips)
    /\ up_pc = "returned"
    /\ ses_out' = Append(ses_out, StatusEvent(15 + ((ses_i - 1) * 80)
                                                   \div Len(ses_clips)))
    /\ ses_pc' = "detect"
    /\ up_pc' = "idle"
    /\ up_retry_count' = 0
    /\ up_seen_active' = FALSE
    /\ UNCHANGED <<ses_duration, ses_clips, ses_i, ses_chunk_index, ses_found,
                   ses_commentaries, ses_audio, ses_chunk_data, ses_log>>
    /\ UNCHANGED <<sm_vars, not_ses_up>>

\* "await upload_tasks[i]" raises what _upload_clip raised (upload error,
\* or TimeoutError after 60 polls).
SesUploadFail ==
    /\ ses_pc = "segment"
    /\ ses_i <= Len(ses_clips)
    /\ up_pc \in {"raised", "timeout"}
    /\ SesRaise(IF up_pc = "timeout" THEN "timeout" ELSE "upload")
    /\ UNCHANGED <<ses_duration, ses_clips, ses_i, ses_chunk_index, ses_found,
                   ses_commentaries, ses_audio, ses_chunk_data>>
    /\ UNCHANGED <<sm_vars, not_ses>>

\* Step 1 of _process_segment_and_emit: detect_events_for_interval returned.
SegDetect ==
    /\ ses_pc = "detect"
    /\ ses_found' \in DetectionOutputs(ses_i, ses_clips[ses_i])
    /\ ses_log' = ses_log \cup {<<"analysed", ses_i>>}
    /\ ses_pc' = "update"
    /\ UNCHANGED <<ses_out, ses_duration, ses_clips, ses_i, ses_chunk_index,
                   ses_commentaries, ses_audio, ses_chunk_data>>
    /\ UNCHANGED <<sm_vars, not_ses>>

\* detect_events_for_interval raised: the await is not inside a try block
\* of _process_segment_and_emit, so the exception leaves it.
SegDetectFail ==
    /\ ses_pc = "detect"
    /\ ses_out' = ErrorEvents(ses_out, "detection")
    /\ ses_log' = ses_log \cup {<<"analysed", ses_i>>, <<"det_fail", ses_i>>,
                                <<"fatal", "detection">>}
    /\ ses_pc' = "done"
    /\ UNCHANGED <<ses_duration, ses_clips, ses_i, ses_chunk_index, ses_found,
                   ses_commentaries, ses_audio, ses_chunk_data>>
    /\ UNCHANGED <<sm_vars, not_ses>>

\* "await self.event_detector._update_state(events, clip.end_time)"
SegUpdateState ==
    /\ ses_pc = "update"
    /\ sm_events' = sm_events \o ses_found
    /\ sm_time_analyzed' =
          StoreTimeAnalyzed(sm_time_analyzed, ses_clips[ses_i].end)
    /\ ses_pc' = "narrate"
    /\ UNCHANGED <<sm_lock, sm_op, sm_calls, sm_observed>>
    /\ UNCHANGED <<ses_out, ses_duration, ses_clips, ses_i, ses_chunk_index,
                   ses_found, ses_commentaries, ses_audio, ses_chunk_data,
                   ses_log>>
    /\ UNCHANGED not_ses

\* Step 2, "if not events": no commentary is asked for.
SegNoEvents ==
    /\ ses_pc = "narrate"
    /\ ses_found = <<>>
    /\ ses_commentaries' = {}
    /\ ses_pc' = "tts"
    /\ UNCHANGED <<ses_out, ses_duration, ses_clips, ses_i, ses_chunk_index,
                   ses_found, ses_audio, ses_chunk_data, ses_log>>
    /\ UNCHANGED <<sm_vars, not_ses>>

\* Step 2: generate_commentary returned.
SegNarrate ==
    /\ ses_pc = "narrate"
    /\ ses_found # <<>>
    /\ ses_commentaries' \in NarrationOutputs(ses_clips[ses_i])
    /\ ses_pc' = "tts"
    /\ UNCHANGED <<ses_out, ses_duration, ses_clips, ses_i, ses_chunk_index,
                   ses_found, ses_audio, ses_chunk_data, ses_log>>
    /\ UNCHANGED <<sm_vars, not_ses>>

\* Step 2: generate_commentary raised, "commentaries = []".
SegNarrateFail ==
    /\ ses_pc = "narrate"
    /\ ses_found # <<>>
    /\ ses_commentaries' = {}
    /\ ses_log' = ses_log \cup {<<"narr_fail", ses_i>>}
    /\ ses_pc' = "tts"
    /\ UNCHANGED <<ses_out, ses_duration, ses_clips, ses_i, ses_chunk_index,
                   ses_found, ses_audio, ses_chunk_data>>
    /\ UNCHANGED <<sm_vars, not_ses>>

\* Step 3: one generate_audio call per commentary; voiced are those for
\* which it returned audio, the others are kept with audio_base64 None (or
\* "").  Without a TTS generator nothing is voiced.
SegSynthesize ==
    /\ ses_pc = "tts"
    /\ \E voiced \in SUBSET ses_commentaries :
          /\ ses_audio' = voiced
          /\ ses_log' = ses_log \cup
                (IF voiced # ses_commentaries
                 THEN {<<"tts_fail", ses_i>>} ELSE {})
    /\ ses_pc' = "chunk"
    /\ UNCHANGED <<ses_out, ses_duration, ses_clips, ses_i, ses_chunk_index,
                   ses_found, ses_commentaries, ses_chunk_data>>
    /\ UNCHANGED <<sm_vars, not_ses>>

\* Step 4: the commentaries overlaid on the chunk of clip: those with audio
\* that start inside the clip.
segment_audio_list(clip, audio) ==
    { c \in audio : clip.start <= c.start /\ c.start < clip.end }

\* Step 4: _create_single_chunk_multi_audio returned; the chunk data.
SegChunkOk ==
    /\ ses_pc = "chunk"
    /\ LET clip == ses_clips[ses_i]
       IN ses_chunk_data' =
            <<[index |-> ses_i - 1,
               start_time |-> seconds_to_time(clip.start),
               end_time |-> seconds_to_time(clip.end),
               overlays |-> segment_audio_list(clip, ses_audio)]>>
    /\ fin_files' = fin_files \cup {ses_i - 1}
    /\ ses_pc' = "emit"
    /\ UNCHANGED fin_video
    /\ UNCHANGED <<ses_out, ses_duration, ses_clips, ses_i, ses_chunk_index,
                   ses_found, ses_commentaries, ses_audio, ses_log>>
    /\ UNCHANGED <<sm_vars, not_ses_fin>>

\* Step 4: chunk creation raised, "return None".
SegChunkFail ==
    /\ ses_pc = "chunk"
    /\ ses_chunk_data' = <<>>
    /\ ses_log' = ses_log \cup {<<"chunk_fail", ses_i>>}
    /\ ses_pc' = "emit"
    /\ UNCHANGED <<ses_out, ses_duration, ses_clips, ses_i, ses_chunk_index,
                   ses_found, ses_commentaries, ses_audio>>
    /\ UNCHANGED <<sm_vars, not_ses>>

\* "if chunk_data: yield chunk_ready; chunk_index += 1", next segment.
SesEmit ==
    /\ ses_pc = "emit"
    /\ ses_chunk_data # <<>>
    /\ ses_out' = Append(ses_out, ChunkReadyEvent(ses_chunk_data[1]))
    /\ ses_chunk_index' = ses_chunk_index + 1
    /\ ses_i' = ses_i + 1
    /\ ses_pc' = "segment"
    /\ UNCHANGED <<ses_duration, ses_clips, ses_found, ses_commentaries,
                   ses_audio, ses_chunk_data, ses_log>>
    /\ UNCHANGED <<sm_vars, not_ses>>

\* chunk_data is None: nothing is yielded for this segment.
SesNoEmit ==
    /\ ses_pc = "emit"
    /\ ses_chunk_data = <<>>
    /\ ses_i' = ses_i + 1
    /\ ses_pc' = "segment"
    /\ UNCHANGED <<ses_out, ses_duration, ses_clips, ses_chunk_index,
                   ses_found, ses_commentaries, ses_audio, ses_chunk_data,
                   ses_log>>
    /\ UNCHANGED <<sm_vars, not_ses>>

NoFinalVideo == [made |-> FALSE, chunks |-> <<>>]

\* The indices below chunk_count, in increasing order, as a sequence.
RECURSIVE RangeFrom(_, _)
RangeFrom(i, chunk_count) ==
    IF i >= chunk_count THEN <<>> ELSE <<i>> \o RangeFrom(i + 1, chunk_count)

\* The lines of concat_list.txt: "for i in range(chunk_count): ... if
\* chunk_path.exists(): f.write(...)"
concat_list(chunk_count, files) ==
    SelectSeq(RangeFrom(0, chunk_count), LAMBDA i : i \in files)

\* _create_final_video: "" for no chunk and for every failure, else the
\* concatenation of the files listed.
FinalVideos(chunk_count, files) ==
    IF chunk_count = 0 THEN {NoFinalVideo}
    ELSE IF concat_list(chunk_count, files) = <<>> THEN {NoFinalVideo}
    ELSE {[made |-> TRUE, chunks |-> concat_list(chunk_count, files)],
          NoFinalVideo}

\* After the loop: clean-up, status 95, the final video (its failure is
\* answered by an empty name), 'complete'.
SesFinalize ==
    /\ ses_pc = "segment"
    /\ ses_i > Len(ses_clips)
    /\ fin_video' \in FinalVideos(ses_chunk_index, fin_files)
    /\ ses_out' = ses_out \o <<StatusEvent(95), CompleteEvent(ses_chunk_index)>>
    /\ ses_pc' = "done"
    /\ UNCHANGED fin_files
    /\ UNCHANGED <<ses_duration, ses_clips, ses_i, ses_chunk_index, ses_found,
                   ses_commentaries, ses_audio, ses_chunk_data, ses_log>>
    /\ UNCHANGED <<sm_vars, not_ses_fin>>

InitSes ==
    /\ ses_pc = "start"
    /\ ses_out = <<>>
    /\ ses_duration \in SesDurations
    /\ ses_clips = <<>>
    /\ ses_i = 1
    /\ ses_chunk_index = 0
    /\ ses_found = <<>>
    /\ ses_commentaries = {}
    /\ ses_audio = {}
    /\ ses_chunk_data = <<>>
    /\ ses_log = {}
    /\ MuxIdle /\ DetIdle /\ SmIdle /\ SynthIdle /\ RlIdle /\ CallIdle
    /\ TimeIdle
    /\ DelayIdle
    /\ PipeIdle
    /\ TtsIdle
    /\ FinIdle
    /\ StIdle
    /\ IvIdle
    /\ OffIdle
    /\ ValIdle
    /\ UpIdle

NextSes ==
    \/ SesStart
    \/ SesStartFail
    \/ SesFileMissing
    \/ SesPrepare
    \/ SesSplitOk
    \/ SesSplitFail
    \/ UpStart
    \/ UpRaise
    \/ UpPollActive
    \/ UpPollWait
    \/ UpLoopEnd
    \/ UpTimeout
    \/ UpReturn
    \/ SesUploadReady
    \/ SesUploadFail
    \/ SegDetect
    \/ SegDetectFail
    \/ SegUpdateState
    \/ SegNoEvents
    \/ SegNarrate
    \/ SegNarrateFail
    \/ SegSynthesize
    \/ SegChunkOk
    \/ SegChunkFail
    \/ SesEmit
    \/ SesNoEmit
    \/ SesFinalize

SpecSes == InitSes /\ [][NextSes]_vars

----------------------------------------------------------------------------
(* Properties of the session's event stream *)

Terminal(e) == e.type \in {"complete", "error"}

IsChunkReady(e) == e.type = "chunk_ready"

\* The chunk_ready events, in the order they were yielded.
ChunkReady == SelectSeq(ses_out, IsChunkReady)

LastEvent == ses_out[Len(ses_out)]

EndedWith(type) ==
    ses_pc = "done" /\ Len(ses_out) > 0 /\ LastEvent.type = type

Logged(what, k) == <<what, k>> \in ses_log

\* C14: the stream holds at most one terminal event, nothing follows it,
\* and the generator has finished exactly when the last event yielded is
\* 'complete' or 'error'.
C14_OneTerminalEvent ==
    /\ \A i \in 1..(Len(ses_out) - 1) : ~Terminal(ses_out[i])
    /\ (ses_pc = "done") <=> (Len(ses_out) > 0 /\ Terminal(LastEvent))

\* C14 witness: a session that had announced a chunk ended with 'error'.
C14_Witness ==
    /\ EndedWith("error")
    /\ Len(ChunkReady) >= 1

\* C15 (as claimed): the j-th chunk_ready event carries index j - 1.
C15_IndexGapFree ==
    \A j \in 1..Len(ChunkReady) : ChunkReady[j].index = j - 1

\* The announced chunks tile [0, video duration).
CoversWholeVideo ==
    /\ Len(ChunkReady) >= 1
    /\ parse_time_to_seconds(ChunkReady[1].start_time) = 0
    /\ \A j \in 1..(Len(ChunkReady) - 1) :
           parse_time_to_seconds(ChunkReady[j].end_time) =
               parse_time_to_seconds(ChunkReady[j + 1].start_time)
    /\ parse_time_to_seconds(ChunkReady[Len(ChunkReady)].end_time) =
           ses_duration

\* C16 (as claimed): in a session that ended with 'complete' the announced
\* chunks start at 0, follow each other without gap and end at the video
\* duration.
C16_SessionChunksContiguous ==
    EndedWith("complete") => CoversWholeVideo

\* C17 (as claimed): a segment whose detection call failed contributes no
\* event and does not end the session.
C17_DetectionFailureSkipped ==
    \A k \in 1..Len(ses_clips) :
        Logged("det_fail", k) =>
            /\ \A i \in 1..Len(sm_events) : sm_events[i].clip # k
            /\ ~Logged("fatal", "detection")
            /\ ~EndedWith("error")

\* C18 (as claimed): a segment whose narration failed gets no commentary,
\* the session goes on with the remaining segments, and when it ends with
\* 'complete' the announced chunks cover the whole video.
C18_NarrationFailureNonFatal ==
    \A k \in 1..Len(ses_clips) :
        Logged("narr_fail", k) =>
            /\ ~Logged("fatal", "narration")
            /\ \A j \in 1..Len(ChunkReady) :
                   (ChunkReady[j].index = k - 1) =>
                       ChunkReady[j].overlays = {}
            /\ EndedWith("complete") =>
                   /\ \A n \in 1..Len(ses_clips) : Logged("analysed", n)
                   /\ CoversWholeVideo

\* C20: when the extraction of some clip fails there is no segment list, no
\* segment is analysed, no chunk_ready is yielded, and the stream has ended
\* with 'error'.
C20_SplitFailureFatal ==
    (\E k \in 1..MaxSegments : Logged("split_fail", k)) =>
        /\ ses_clips = <<>>
        /\ \A n \in 1..MaxSegments : ~Logged("analysed", n)
        /\ Len(ChunkReady) = 0
        /\ EndedWith("error")

\* C20 witness: the second of three clips could not be extracted and the
\* session is over.
C20_Witness ==
    /\ Logged("split_fail", 2)
    /\ ~Logged("split_fail", 1)
    /\ Len(split_video(ses_duration)) = 3
    /\ ses_pc = "done"

----------------------------------------------------------------------------
(* Synthesis failures seen by the muxing stage *)

\* The chunks emitted for commentary c.
ChunksOf(c) ==
    { i \in 1..Len(chunk_queue) :
          IsChunk(chunk_queue[i]) /\ chunk_queue[i].commentary = c }

----------------------------------------------------------------------------
(* The wait for an uploaded clip *)

\* C21: the wait for an uploaded clip is bounded by 60 polls one second
\* apart: _upload_clip returns only if one of at most 60 polls saw ACTIVE,
\* otherwise it raises the timeout, and the step that follows the timeout
\* ends the session with the 'error' event.
C21_UploadWaitBounded ==
    /\ [](/\ up_retry_count \in 0..60
          /\ (up_pc = "returned") => (up_seen_active /\ up_retry_count < 60)
          /\ (up_pc = "timeout") => (~up_seen_active /\ up_retry_count = 60)
          /\ (up_pc = "after_loop" /\ ~up_seen_active) => up_retry_count = 60)
    /\ [][(up_pc = "timeout") =>
             /\ ses_pc' = "done"
             /\ ses_out' = Append(ses_out, [type |-> "error",
                                            message |-> "timeout"])]_vars

\* C21 witness: the first clip became ready, the second one was polled 60
\* times in vain and the session ended with 'error'.
C21_Witness ==
    /\ up_pc = "timeout"
    /\ up_retry_count = 60
    /\ ses_i = 2
    /\ EndedWith("error")
    /\ Logged("fatal", "timeout")

----------------------------------------------------------------------------
(* Validation of the narration: CommentaryGenerator.generate_commentary     *)
(* passes the parsed response through validate_commentary_duration          *)
(* (video/time_utils.py) and then through _validate_dual_commentary.  A     *)
(* session calls generate_commentary once per segment that has events.      *)
(*                                                                          *)
(* A timestamp "HH:MM:SS" is the triple <<hours, minutes, seconds>>; a text *)
(* is its number of words together with the positions of the words that     *)
(* end with a full stop.                                                     *)

MaxBatchLen == 2
MaxBatches == 2

StartSecs == {0, 12}
EndSecs == {10, 12, 45}

Texts ==
    { [n |-> 3, stops |-> {}],
      [n |-> 60, stops |-> {}],
      [n |-> 60, stops |-> {4}] }

RawCommentaries ==
    { [start_time |-> seconds_to_time(Sec(s)),
       end_time |-> seconds_to_time(Sec(e)),
       commentary |-> t] : s \in StartSecs, e \in EndSecs, t \in Texts }

RawBatches ==
    UNION { [1..k -> RawCommentaries] : k \in 0..MaxBatchLen }

\* "WORDS_PER_SECOND = 2.5", as the fraction 5/2
WordsPerSecondNum == 5
WordsPerSecondDen == 2

\* "MIN_GAP = 0.5", in ticks
MIN_GAP == 10
MIN_DURATION == Sec(10)
MAX_DURATION == Sec(20)

\* int(x / y) of Python for y > 0: the fraction is dropped towards zero
IntOfQuotient(x, y) == IF x >= 0 THEN x \div y ELSE -((-x) \div y)

\* commentary_words[:max_words]: a negative bound counts from the end
SliceLen(n, max_words) ==
    IF max_words >= 0 THEN MinOf(n, max_words) ELSE MaxOf(0, n + max_words)

\* "' '.join(commentary_words[:max_words])", then cut after the last full
\* stop if there is one.
Truncated(text, max_words) ==
    LET k == SliceLen(text.n, max_words)
        kept == { p \in text.stops : p <= k }
    IN IF kept = {} THEN [n |-> k, stops |-> {}]
       ELSE [n |-> CHOOSE p \in kept : \A q \in kept : q <= p, stops |-> kept]

\* The body of the loop of validate_commentary_duration.
validate_commentary_duration_of(commentary) ==
    LET start_seconds == parse_time_to_seconds(commentary.start_time)
        end_seconds == parse_time_to_seconds(commentary.end_time)
        duration == end_seconds - start_seconds
        max_words == IntOfQuotient(duration * WordsPerSecondNum,
                                   Sec(1) * WordsPerSecondDen)
    IN IF commentary.commentary.n > max_words
       THEN [commentary EXCEPT !.commentary = Truncated(@, max_words)]
       ELSE commentary

validate_commentary_duration(cs) ==
    [i \in 1..Len(cs) |-> validate_commentary_duration_of(cs[i])]

\* "new_start = prev_end + MIN_GAP; seconds_to_time(new_start)"
ShiftedStart(prev_end) == seconds_to_time(prev_end + MIN_GAP)

\* One pass of the loop of _validate_dual_commentary for an item that is
\* not the first: the gap to validated[-1], then the duration.
validate_dual_item(prev, commentary) ==
    LET prev_end == parse_time_to_seconds(prev.end_time)
        current_start == parse_time_to_seconds(commentary.start_time)
        gap == current_start - prev_end
        c1 == IF gap < MIN_GAP
              THEN [commentary EXCEPT !.start_time = ShiftedStart(prev_end)]
              ELSE commentary
        start_secs == parse_time_to_seconds(c1.start_time)
        end_secs == parse_time_to_seconds(c1.end_time)
        duration == end_secs - start_secs
    IN IF duration < MIN_DURATION THEN c1
       ELSE IF duration > MAX_DURATION
       THEN [c1 EXCEPT !.end_time = seconds_to_time(start_secs + MAX_DURATION)]
       ELSE c1

RECURSIVE validate_dual_from(_, _, _)
validate_dual_from(cs, i, validated) ==
    IF i > Len(cs) THEN validated
    ELSE IF i = 1 THEN validate_dual_from(cs, 2, <<cs[1]>>)
    ELSE validate_dual_from(cs, i + 1,
             Append(validated,
                    validate_dual_item(validated[Len(validated)], cs[i])))

_validate_dual_commentary(cs) == validate_dual_from(cs, 1, <<>>)

\* generate_commentary from the parsed response to "return".
ValGenerate ==
    /\ val_pc = "raw"
    /\ val_out' = _validate_dual_commentary(validate_commentary_duration(val_raw))
    /\ val_pc' = "returned"
    /\ UNCHANGED <<val_raw, val_tail, val_batches>>
    /\ UNCHANGED not_val

\* generate_commentary raises RuntimeError.  The generator reads the
\* attributes speaker and commentary of each commentary, which the
\* Commentary model of commentary/models.py (start_time, end_time, text)
\* does not declare: with that model "c.speaker" raises for the first
\* commentary of the response.  The validation above is what the generator
\* does with commentaries that carry the fields it reads.
ValRaise ==
    /\ val_pc = "raw"
    /\ val_raw # <<>>
    /\ val_pc' = "raised"
    /\ UNCHANGED <<val_raw, val_out, val_tail, val_batches>>
    /\ UNCHANGED not_val

\* The next segment with events: another response arrives.
ValNextBatch ==
    /\ val_pc \in {"returned", "raised"}
    /\ val_batches < MaxBatches
    /\ val_raw' \in RawBatches
    /\ val_tail' = IF val_out = <<>> THEN val_tail
                   ELSE <<val_out[Len(val_out)]>>
    /\ val_out' = <<>>
    /\ val_batches' = val_batches + 1
    /\ val_pc' = "raw"
    /\ UNCHANGED not_val

InitVal ==
    /\ val_pc = "raw"
    /\ val_raw \in RawBatches
    /\ val_out = <<>>
    /\ val_tail = <<>>
    /\ val_batches = 1
    /\ MuxIdle /\ DetIdle /\ SmIdle /\ SynthIdle /\ RlIdle /\ CallIdle /\ SesIdle
    /\ TimeIdle
    /\ DelayIdle
    /\ PipeIdle
    /\ TtsIdle
    /\ FinIdle
    /\ StIdle
    /\ IvIdle
    /\ OffIdle
    /\ UpIdle

NextVal == ValGenerate \/ ValRaise \/ ValNextBatch

SpecVal == InitVal /\ [][NextVal]_vars

----------------------------------------------------------------------------
(* Properties of the validated narration *)

startSec(c) == parse_time_to_seconds(c.start_time)
endSec(c) == parse_time_to_seconds(c.end_time)

\* The commentaries of the session in the order they were returned: the
\* last one of the earlier calls, then those of the call that has returned.
SessionTail == val_tail \o val_out

\* ceil(x / y) for y > 0
CeilOfQuotient(x, y) == -((-x) \div y)

\* C22 (as claimed): in a session the start times of the commentaries are
\* strictly increasing and each commentary starts at least 0.5 s after the
\* end of the one before it, within one call and from one call to the next.
C22_GapsEnforced ==
    \A i \in 1..(Len(SessionTail) - 1) :
        /\ startSec(SessionTail[i]) < startSec(SessionTail[i + 1])
        /\ endSec(SessionTail[i]) + MIN_GAP <= startSec(SessionTail[i + 1])

\* C23 (as claimed): every commentary that leaves the validation ends after
\* it starts and lasts between 10 s and 20 s, at every position of the list.
C23_DurationWithinPolicy ==
    \A i \in 1..Len(val_out) :
        /\ endSec(val_out[i]) > startSec(val_out[i])
        /\ endSec(val_out[i]) - startSec(val_out[i]) >= MIN_DURATION
        /\ endSec(val_out[i]) - startSec(val_out[i]) <= MAX_DURATION

\* C24 (as claimed): every commentary returned has at most
\* ceil(duration * 2.5) words, the duration being its final end time minus
\* its final start time.
C24_WordBudget ==
    \A i \in 1..Len(val_out) :
        val_out[i].commentary.n <=
            CeilOfQuotient((endSec(val_out[i]) - startSec(val_out[i]))
                               * WordsPerSecondNum,
                           Sec(1) * WordsPerSecondDen)

----------------------------------------------------------------------------
(* Timestamps of the detected events: the post-processing loop of           *)
(* EventDetector.detect_events_for_interval.                                *)

\* Event times the service may return, in seconds: inside a 30 s clip,
\* beyond it, and times that are already those of the full video.
RawEventSecs == {0, 2, 4, 15, 30, 32, 45, 50, 62, 75, 90}

\* "corrected_seconds = event_seconds + interval_start"
corrected_seconds(event_seconds, interval_start) ==
    event_seconds + interval_start

\* "event.time = seconds_to_time(corrected_seconds)" for one event.
OffCorrect ==
    /\ off_pc = "parsed"
    /\ off_time' = seconds_to_time(
                       corrected_seconds(parse_time_to_seconds(off_raw),
                                         off_clip.start))
    /\ off_pc' = "returned"
    /\ UNCHANGED <<off_clip, off_raw>>
    /\ UNCHANGED not_off

InitOff ==
    /\ off_pc = "parsed"
    /\ \E d \in DetDurations :
          \E k \in 1..Len(split_video(d)) : off_clip = split_video(d)[k]
    /\ off_raw \in { seconds_to_time(Sec(r)) : r \in RawEventSecs }
    /\ off_time = <<>>
    /\ MuxIdle /\ DetIdle /\ SmIdle /\ SynthIdle /\ RlIdle /\ CallIdle /\ SesIdle
    /\ TimeIdle
    /\ DelayIdle
    /\ PipeIdle
    /\ TtsIdle
    /\ FinIdle
    /\ StIdle
    /\ IvIdle
    /\ UpIdle /\ ValIdle

NextOff == OffCorrect

SpecOff == InitOff /\ [][NextOff]_vars

\* clamp(x, lo, hi)
Clamp(x, lo, hi) == MaxOf(lo, MinOf(x, hi))

\* The stored time the offset-correction policy asks for.
PolicyTime(raw, clip) ==
    IF clip.start <= raw /\ raw <= clip.end THEN raw
    ELSE clip.start + Clamp(raw, 0, clip.end - clip.start)

\* C25 (as claimed): the stored event time is the segment's start plus the
\* raw time clamped to the segment's duration, a raw time already inside
\* [start, end] being kept as it is; so it lies within [start, end].
C25_OffsetCorrected ==
    (off_pc = "returned" /\ off_time # <<>>) =>
        /\ parse_time_to_seconds(off_time) =
               PolicyTime(parse_time_to_seconds(off_raw), off_clip)
        /\ off_clip.start <= parse_time_to_seconds(off_time)
        /\ parse_time_to_seconds(off_time) <= off_clip.end

----------------------------------------------------------------------------
(* The segmenter: the while loop of calculate_video_intervals               *)
(* (video/time_utils.py), one iteration per step.  Of the list the first    *)
(* MaxIntervals entries are kept, and of the entries appended after them    *)
(* whether their number is even or odd.                                     *)

MaxIntervals == 6

\* Total durations: 0 s, 5 s, 5.05 s, 30 s, 60 s, 90 s, 133 s and 150 s
IvDurations ==
    {0, Sec(5), Sec(5) + 1, Sec(30), Sec(60), Sec(90), Sec(133), Sec(150)}

\* Interval lengths: 0 s, 30 s, 45 s and 60 s; none of the lists for a
\* positive one is longer than MaxIntervals.
IvIntervals == {0, Sec(30), Sec(45), Sec(60)}

\* "while current_start < duration_seconds:" one pass of the body
IvAppend ==
    /\ iv_pc = "loop"
    /\ iv_current_start < iv_duration
    /\ LET current_end == MinOf(iv_current_start + iv_interval, iv_duration)
       IN /\ IF Len(iv_intervals) < MaxIntervals
             THEN /\ iv_intervals' = Append(iv_intervals,
                                            <<iv_current_start, current_end>>)
                  /\ UNCHANGED iv_overflow
             ELSE /\ iv_overflow' = 1 - iv_overflow
                  /\ UNCHANGED iv_intervals
          /\ iv_current_start' = current_end
    /\ UNCHANGED <<iv_pc, iv_duration, iv_interval>>
    /\ UNCHANGED not_iv

\* The loop condition is false: "return intervals"
IvReturn ==
    /\ iv_pc = "loop"
    /\ ~(iv_current_start < iv_duration)
    /\ iv_pc' = "returned"
    /\ UNCHANGED <<iv_duration, iv_interval, iv_current_start, iv_intervals,
                   iv_overflow>>
    /\ UNCHANGED not_iv

InitIv ==
    /\ iv_pc = "loop"
    /\ iv_duration \in IvDurations
    /\ iv_interval \in IvIntervals
    /\ iv_current_start = 0
    /\ iv_intervals = <<>>
    /\ iv_overflow = 0
    /\ MuxIdle /\ DetIdle /\ SmIdle /\ SynthIdle /\ RlIdle /\ CallIdle /\ SesIdle
    /\ TimeIdle
    /\ DelayIdle
    /\ PipeIdle
    /\ TtsIdle
    /\ FinIdle
    /\ StIdle
    /\ UpIdle /\ ValIdle /\ OffIdle

NextIv == IvAppend \/ IvReturn

SpecIv == InitIv /\ [][NextIv]_vars

\* The loop is not suspended: it is plain synchronous code.
FairSpecIv == SpecIv /\ WF_vars(NextIv)

\* The list walks [0, duration) in interval-sized steps.
WalksDuration ==
    /\ iv_overflow = 0
    /\ iv_duration > 0 => Len(iv_intervals) > 0
    /\ \A i \in 1..Len(iv_intervals) :
          /\ iv_intervals[i][1] = (IF i = 1 THEN 0 ELSE iv_intervals[i - 1][2])
          /\ i < Len(iv_intervals) =>
                 iv_intervals[i][2] - iv_intervals[i][1] = iv_interval
          /\ (i = Len(iv_intervals)) => iv_intervals[i][2] = iv_duration
          /\ iv_intervals[i][1] < iv_intervals[i][2]

----------------------------------------------------------------------------
(* StateManager with its files (state_manager.py): add_events,              *)
(* add_commentaries, update_time_analyzed, the readers, and a restart: a    *)
(* new StateManager constructed over the same directory, followed by        *)
(* init_files.  Every method body is "async with self.lock".                *)
(*                                                                          *)
(* A file holds a JSON document: an object with one key, an array, or text  *)
(* that does not parse (a write that stopped half-way).                     *)

StCallers == 2
MaxStCalls == 3

JsonObject(key, items) == [json |-> "object", key |-> key, items |-> items]
JsonArray(items) == [json |-> "array", items |-> items]
JsonInvalid == [json |-> "invalid"]

\* The lists a caller appends with its n-th call: two entries.
Batch(n) == <<[call |-> n, item |-> 1], [call |-> n, item |-> 2]>>

\* The value passed to update_time_analyzed by the n-th call.
NewTime(n) == Sec(30 * n)

StIdleOp == [op |-> "idle"]

StOpNames ==
    {"add_events", "add_commentaries", "update_time_analyzed",
     "get_time_analyzed", "get_all_events", "get_all_commentaries"}

LockIgnored(lock) == TRUE

\* asyncio.Lock: "async with self.lock" proceeds when the lock is free
LockIsFree(lock) == lock = 0

\* "async with self.lock": caller c enters operation name.
StAcquire(c, name) ==
    /\ st_op[c] = StIdleOp
    /\ LockIsFree(st_lock)
    /\ st_calls < MaxStCalls
    /\ st_lock' = c
    /\ st_calls' = st_calls + 1
    /\ st_op' = [st_op EXCEPT ![c] = [op |-> name, pc |-> "body",
                                      call |-> st_calls + 1]]
    /\ UNCHANGED <<st_events, st_commentary, st_time_analyzed, st_events_file,
                   st_commentary_file, st_log>>
    /\ UNCHANGED not_st

\* Leaving the "async with" block: the lock is released, the method returns.
StReturn(c, entry) ==
    /\ st_lock' = 0
    /\ st_op' = [st_op EXCEPT ![c] = StIdleOp]
    /\ st_log' = Append(st_log, [caller |-> c] @@ entry)

\* add_events: "self.events.extend(new_events)"
StExtendEvents(c) ==
    /\ st_op[c].op = "add_events"
    /\ st_op[c].pc = "body"
    /\ st_events' = st_events \o Batch(st_op[c].call)
    /\ st_op' = [st_op EXCEPT ![c].pc = "save"]
    /\ UNCHANGED <<st_commentary, st_time_analyzed, st_events_file,
                   st_commentary_file, st_lock, st_calls, st_log>>
    /\ UNCHANGED not_st

\* What a file holds after "with open(FILE, 'w') as f: json.dump(doc, f)"
\* inside "try: ... except Exception: print(...)": the document; the old
\* content when open raised; unparsable text when the dump raised.
SavedFile(old, doc) == {doc, old, JsonInvalid}

\* add_events: "await self._save_events_to_file()" and return
StSaveEvents(c) ==
    /\ st_op[c].op = "add_events"
    /\ st_op[c].pc = "save"
    /\ st_events_file' \in SavedFile(st_events_file,
                                     JsonObject("events", st_events))
    /\ StReturn(c, [op |-> "add_events", batch |-> Batch(st_op[c].call)])
    /\ UNCHANGED <<st_events, st_commentary, st_time_analyzed,
                   st_commentary_file, st_calls>>
    /\ UNCHANGED not_st

\* add_commentaries: "self.commentary.extend(new_commentaries)"
StExtendCommentary(c) ==
    /\ st_op[c].op = "add_commentaries"
    /\ st_op[c].pc = "body"
    /\ st_commentary' = st_commentary \o Batch(st_op[c].call)
    /\ st_op' = [st_op EXCEPT ![c].pc = "save"]
    /\ UNCHANGED <<st_events, st_time_analyzed, st_events_file,
                   st_commentary_file, st_lock, st_calls, st_log>>
    /\ UNCHANGED not_st

\* add_commentaries: "await self._save_commentaries_to_file()" and return
StSaveCommentaries(c) ==
    /\ st_op[c].op = "add_commentaries"
    /\ st_op[c].pc = "save"
    /\ st_commentary_file' \in
           SavedFile(st_commentary_file,
                     JsonObject("commentaries", st_commentary))
    /\ StReturn(c, [op |-> "add_commentaries",
                    batch |-> Batch(st_op[c].call)])
    /\ UNCHANGED <<st_events, st_commentary, st_time_analyzed,
                   st_events_file, st_calls>>
    /\ UNCHANGED not_st

\* update_time_analyzed
StUpdateTimeAnalyzed(c) ==
    /\ st_op[c].op = "update_time_analyzed"
    /\ st_time_analyzed' = NewTime(st_op[c].call)
    /\ StReturn(c, [op |-> "update_time_analyzed",
                    new_time |-> NewTime(st_op[c].call)])
    /\ UNCHANGED <<st_events, st_commentary, st_events_file,
                   st_commentary_file, st_calls>>
    /\ UNCHANGED not_st

\* get_time_analyzed, get_all_events ("self.events.copy()") and
\* get_all_commentaries
StRead(c) ==
    /\ st_op[c].op \in {"get_time_analyzed", "get_all_events",
                        "get_all_commentaries"}
    /\ StReturn(c, [op |-> st_op[c].op,
                    result |-> CASE st_op[c].op = "get_time_analyzed" ->
                                        st_time_analyzed
                                 [] st_op[c].op = "get_all_events" ->
                                        st_events
                                 [] OTHER -> st_commentary])
    /\ UNCHANGED <<st_events, st_commentary, st_time_analyzed, st_events_file,
                   st_commentary_file, st_calls>>
    /\ UNCHANGED not_st

\* init_files, for one of the two files: the list under the expected key,
\* a bare array, or nothing at all.
Loaded(file, key) ==
    IF file.json = "object" /\ file.key = key THEN file.items
    ELSE IF file.json = "array" THEN file.items
    ELSE <<>>

\* init_files: a file that does not parse is replaced by an empty document.
Reinitialised(file, key) ==
    IF file.json = "invalid" THEN JsonObject(key, <<>>) ELSE file

\* The process is restarted: StateManager(output_dir) over the same
\* directory, then init_files.
StRestart ==
    /\ st_lock = 0
    /\ \A c \in 1..StCallers : st_op[c] = StIdleOp
    /\ st_calls < MaxStCalls
    /\ st_calls' = st_calls + 1
    /\ st_events' = Loaded(st_events_file, "events")
    /\ st_commentary' = Loaded(st_commentary_file, "commentaries")
    /\ st_time_analyzed' = 0
    /\ st_events_file' = Reinitialised(st_events_file, "events")
    /\ st_commentary_file' = Reinitialised(st_commentary_file, "commentaries")
    /\ st_log' = Append(st_log,
                        [op |-> "init_files",
                         events |-> Loaded(st_events_file, "events"),
                         commentary |-> Loaded(st_commentary_file,
                                               "commentaries")])
    /\ UNCHANGED <<st_lock, st_op>>
    /\ UNCHANGED not_st

\* A StateManager constructed over an empty directory, after init_files.
InitStore ==
    /\ st_events = <<>>
    /\ st_commentary = <<>>
    /\ st_time_analyzed = 0
    /\ st_events_file = JsonObject("events", <<>>)
    /\ st_commentary_file = JsonObject("commentaries", <<>>)
    /\ st_lock = 0
    /\ st_op = [c \in 1..StCallers |-> StIdleOp]
    /\ st_calls = 0
    /\ st_log = <<>>
    /\ MuxIdle /\ DetIdle /\ SmIdle /\ SynthIdle /\ RlIdle /\ CallIdle /\ SesIdle
    /\ TimeIdle
    /\ DelayIdle
    /\ PipeIdle
    /\ TtsIdle
    /\ FinIdle
    /\ UpIdle /\ ValIdle /\ OffIdle /\ IvIdle

NextStore ==
    \/ \E c \in 1..StCallers : \E name \in StOpNames : StAcquire(c, name)
    \/ \E c \in 1..StCallers : StExtendEvents(c)
    \/ \E c \in 1..StCallers : StSaveEvents(c)
    \/ \E c \in 1..StCallers : StExtendCommentary(c)
    \/ \E c \in 1..StCallers : StSaveCommentaries(c)
    \/ \E c \in 1..StCallers : StUpdateTimeAnalyzed(c)
    \/ \E c \in 1..StCallers : StRead(c)
    \/ StRestart

SpecStore == InitStore /\ [][NextStore]_vars

----------------------------------------------------------------------------
(* Properties of the StateManager with its files *)

\* No caller is inside an operation.
Quiescent ==
    /\ st_lock = 0
    /\ \A c \in 1..StCallers : st_op[c] = StIdleOp

\* The batches appended by the completed calls of operation name, in order.
RECURSIVE AppendedBy(_, _)
AppendedBy(name, log) ==
    IF log = <<>> THEN <<>>
    ELSE AppendedBy(name, SubSeq(log, 1, Len(log) - 1))
             \o (IF log[Len(log)].op = name THEN log[Len(log)].batch
                 ELSE <<>>)

Restarted == \E i \in 1..Len(st_log) : st_log[i].op = "init_files"

\* C27 (as claimed): whenever add_events or add_commentaries has returned
\* (and no other operation is under way), each file holds exactly the
\* in-memory list.
C27_FileFollowsMemory ==
    (Quiescent /\ \E i \in 1..Len(st_log) :
                      st_log[i].op \in {"add_events", "add_commentaries"}) =>
        /\ st_events_file = JsonObject("events", st_events)
        /\ st_commentary_file = JsonObject("commentaries", st_commentary)

\* C28 (as claimed): after a restart the lists hold exactly what was
\* appended before it, in the same order and once, and the later appends
\* extend them.
C28_ResumesFromSnapshot ==
    (Quiescent /\ Restarted) =>
        /\ st_events = AppendedBy("add_events", st_log)
        /\ st_commentary = AppendedBy("add_commentaries", st_log)

\* The in-memory state produced by the completed operations of log, taken
\* one after the other.
RECURSIVE Replay(_)
Replay(log) ==
    IF log = <<>>
    THEN [events |-> <<>>, commentary |-> <<>>, time_analyzed |-> 0]
    ELSE LET before == Replay(SubSeq(log, 1, Len(log) - 1))
             e == log[Len(log)]
         IN CASE e.op = "add_events" ->
                     [before EXCEPT !.events = @ \o e.batch]
              [] e.op = "add_commentaries" ->
                     [before EXCEPT !.commentary = @ \o e.batch]
              [] e.op = "update_time_analyzed" ->
                     [before EXCEPT !.time_analyzed = e.new_time]
              [] e.op = "init_files" ->
                     [events |-> e.events, commentary |-> e.commentary,
                      time_analyzed |-> 0]
              [] OTHER -> before

\* What a completed read should have returned.
ReadOf(e, state) ==
    CASE e.op = "get_time_analyzed" -> state.time_analyzed
      [] e.op = "get_all_events" -> state.events
      [] OTHER -> state.commentary

\* C29: the operations exclude each other (a caller inside one holds the
\* lock), so no append is lost, the batches lie one after the other in the
\* order of the calls, and every read returns the state left by the
\* operations completed before it.
C29_OperationsSerialised ==
    /\ \A c \in 1..StCallers : st_op[c] # StIdleOp => st_lock = c
    /\ Quiescent =>
          /\ st_events = Replay(st_log).events
          /\ st_commentary = Replay(st_log).commentary
          /\ st_time_analyzed = Replay(st_log).time_analyzed
    /\ \A i \in 1..Len(st_log) :
          st_log[i].op \in {"get_time_analyzed", "get_all_events",
                            "get_all_commentaries"} =>
              st_log[i].result = ReadOf(st_log[i],
                                        Replay(SubSeq(st_log, 1, i - 1)))

\* C29 witness: two callers appended events one after the other and the
\* first one then read all four of them.
C29_Witness ==
    /\ Len(st_log) = 3
    /\ st_log[1].op = "add_events" /\ st_log[1].caller = 1
    /\ st_log[2].op = "add_events" /\ st_log[2].caller = 2
    /\ st_log[3].op = "get_all_events" /\ st_log[3].caller = 1
    /\ st_log[3].result = Batch(1) \o Batch(2)
    /\ Quiescent

----------------------------------------------------------------------------
(* The final video of a session *)

\* The indices of the chunk_ready events, in the order they were yielded.
RECURSIVE EmittedIndices(_)
EmittedIndices(out) ==
    IF out = <<>> THEN <<>>
    ELSE EmittedIndices(SubSeq(out, 1, Len(out) - 1))
             \o (IF IsChunkReady(out[Len(out)]) THEN <<out[Len(out)].index>>
                 ELSE <<>>)

\* C30 (as claimed): when a session completes, the final video is the
\* concatenation of exactly the chunks emitted as chunk_ready, each once and
\* in index order, whichever segments produced a chunk.
C30_FinalVideoIsEmittedChunks ==
    EndedWith("complete") =>
        /\ fin_video.chunks = EmittedIndices(ses_out)
        /\ fin_video.made = (EmittedIndices(ses_out) # <<>>)

----------------------------------------------------------------------------
(* One synthesis task after another: _generate_single_audio calling          *)
(* TTSGenerator.generate_audio.  Waits are in whole seconds.                 *)

MaxTtsItems == 2

\* "max_retries: int = 3" of generate_audio
tts_max_retries == 3

\* "retry_delay: float = 2.0"
retry_delay == 2

\* What one text_to_speech.convert request does: it returns audio bytes
\* (possibly none), or raises an exception whose str() contains 'quota' or
\* '401' (quota), 'rate' or '429' (rate), 'timeout' (timeout), or none of them.
Converted(bytes) ==
    [kind |-> IF bytes THEN "audio" ELSE "empty",
     quota |-> FALSE, rate |-> FALSE, timeout |-> FALSE]

ConvertErrors ==
    [kind : {"error"}, quota : BOOLEAN, rate : BOOLEAN, timeout : BOOLEAN]

\* "is_quota_error = 'quota' in error_str.lower() or '401' in error_str"
is_quota_error(e) == e.quota

\* "is_rate_limit = 'rate' in error_str.lower() or '429' in error_str"
is_rate_limit(e) == e.rate

\* Mutation of ShouldRetry: the quota test is not made before the retry test.
RetryQuotaToo(attempt, e) ==
    /\ attempt < tts_max_retries - 1
    /\ (is_rate_limit(e) \/ e.timeout \/ is_quota_error(e))

\* "if is_quota_error: return ''" comes first, then
\* "if attempt < max_retries - 1 and (is_rate_limit or 'timeout' in ...)"
ShouldRetry(attempt, e) ==
    /\ ~is_quota_error(e)
    /\ attempt < tts_max_retries - 1
    /\ (is_rate_limit(e) \/ e.timeout)

\* "wait_time = retry_delay * (2 ** attempt)"
wait_time(attempt) == retry_delay * Pow2(attempt)

\* "await audio_queue.put({... 'audio_base64': ..., 'interval_index': ...})"
TtsPut(item, audio) ==
    tts_queue' = Append(tts_queue, [index |-> item, audio_base64 |-> audio])

\* The task of the next commentary starts and enters generate_audio:
\* "for attempt in range(max_retries)".
TtsEnter ==
    /\ tts_pc = "idle"
    /\ tts_item < MaxTtsItems
    /\ tts_item' = tts_item + 1
    /\ tts_outcomes' = <<>>
    /\ tts_sleeps' = <<>>
    /\ tts_audio' = "None"
    /\ tts_pc' = "call"
    /\ UNCHANGED tts_queue
    /\ UNCHANGED not_tts

\* The task of the next commentary raises before any request is made
\* (the commentary lacks the attribute read, or get_voice_for_speaker raises
\* ValueError): "except Exception" puts the item without audio.
TtsTaskRaise ==
    /\ tts_pc = "idle"
    /\ tts_item < MaxTtsItems
    /\ tts_item' = tts_item + 1
    /\ tts_outcomes' = <<>>
    /\ tts_sleeps' = <<>>
    /\ tts_audio' = "None"
    /\ TtsPut(tts_item + 1, "None")
    /\ UNCHANGED tts_pc
    /\ UNCHANGED not_tts

\* A request succeeds: "return audio_base64".
TtsConvertOk(bytes) ==
    /\ tts_pc = "call"
    /\ tts_outcomes' = Append(tts_outcomes, Converted(bytes))
    /\ tts_audio' = IF bytes THEN "audio" ELSE ""
    /\ tts_pc' = "returned"
    /\ UNCHANGED <<tts_item, tts_sleeps, tts_queue>>
    /\ UNCHANGED not_tts

\* A request raises e: the except block of generate_audio.
TtsConvertFail(e) ==
    /\ tts_pc = "call"
    /\ tts_outcomes' = Append(tts_outcomes, e)
    /\ LET attempt == Len(tts_outcomes)
       IN IF ShouldRetry(attempt, e)
          THEN /\ tts_sleeps' = Append(tts_sleeps, wait_time(attempt))
               /\ UNCHANGED <<tts_pc, tts_audio>>
          ELSE /\ tts_audio' = ""
               /\ tts_pc' = "returned"
               /\ UNCHANGED tts_sleeps
    /\ UNCHANGED <<tts_item, tts_queue>>
    /\ UNCHANGED not_tts

\* generate_audio has returned: the item is put on audio_queue.
TtsReturn ==
    /\ tts_pc = "returned"
    /\ TtsPut(tts_item, tts_audio)
    /\ tts_pc' = "idle"
    /\ UNCHANGED <<tts_item, tts_outcomes, tts_sleeps, tts_audio>>
    /\ UNCHANGED not_tts

InitTts ==
    /\ MuxIdle /\ DetIdle /\ SmIdle /\ SynthIdle /\ RlIdle /\ CallIdle
    /\ TimeIdle
    /\ DelayIdle
    /\ PipeIdle
    /\ SesIdle /\ UpIdle /\ FinIdle /\ StIdle /\ IvIdle /\ OffIdle /\ ValIdle
    /\ TtsIdle

NextTts ==
    \/ TtsEnter
    \/ TtsTaskRaise
    \/ \E bytes \in BOOLEAN : TtsConvertOk(bytes)
    \/ \E e \in ConvertErrors : TtsConvertFail(e)
    \/ TtsReturn

SpecTts == InitTts /\ [][NextTts]_vars

(* Properties of one synthesis task *)

IsError(o) == o.kind = "error"

\* The requests of the current item that were followed by another request.
Retried == 1..(Len(tts_outcomes) - (IF tts_pc = "call" THEN 0 ELSE 1))

\* The current item is finished and its last request failed.
GaveUp ==
    /\ tts_pc # "call"
    /\ tts_outcomes # <<>>
    /\ IsError(tts_outcomes[Len(tts_outcomes)])

\* Every item started so far is on the queue, once, in order, except the
\* one whose call is still running.
QueuedInOrder ==
    /\ Len(tts_queue) = tts_item - (IF tts_pc = "idle" THEN 0 ELSE 1)
    /\ \A k \in 1..Len(tts_queue) : tts_queue[k].index = k

----------------------------------------------------------------------------
(* The streaming stages as concurrent tasks: _detect_events_streaming,        *)
(* _generate_commentary_streaming, _generate_audio_parallel and              *)
(* _create_video_chunks, connected by event_queue, commentary_queue,         *)
(* audio_queue and chunk_queue.                                              *)

MaxPipeClips == 2

\* The batch put on event_queue for a clip: 'interval_index' and whether
\* 'events' is non-empty.
EventBatch(idx, found) == [interval_index |-> idx, events |-> found]

\* None on event_queue.
EndOfEvents == EventBatch(-1, FALSE)

\* The commentaries the narration service may write for the clip idx:
\* three seconds long, at 0, 4 and 8 s of the clip.
PipeCommentary(idx, j) == Commentary(30 * idx + 4 * j, 30 * idx + 4 * j + 3)

\* What generate_commentary may return for the clip idx.
PipeBatches(idx) ==
    { <<>>, <<PipeCommentary(idx, 2)>>,
      <<PipeCommentary(idx, 0), PipeCommentary(idx, 1),
        PipeCommentary(idx, 2)>> }

PipeUniverse ==
    { PipeCommentary(idx, j) : idx \in 0..(MaxPipeClips - 1), j \in 0..2 }

\* Mutation of IntervalIndex: the index is not taken from the loop variable.
IntervalIndexStuck(i) == 0

\* "'interval_index': i - 1" with "enumerate(..., 1)"
IntervalIndex(i) == i - 1

\* One iteration of the for loop of the detection stage: the events of clip
\* i are detected, stored and put on event_queue with interval_index i - 1.
PipeDetect(found) ==
    /\ pd_pc = "loop"
    /\ pd_i <= pd_total
    /\ event_queue' =
          Append(event_queue, EventBatch(IntervalIndex(pd_i), found))
    /\ ev_put' = Append(ev_put, IntervalIndex(pd_i))
    /\ pd_i' = pd_i + 1
    /\ UNCHANGED <<pd_total, pd_pc, nar_pc, nar_interval_index, nar_todo,
                   com_put>>
    /\ UNCHANGED not_pipe

\* detect_events_for_interval raises: "except Exception" puts None.
PipeDetectRaise ==
    /\ pd_pc = "loop"
    /\ pd_i <= pd_total
    /\ event_queue' = Append(event_queue, EndOfEvents)
    /\ pd_pc' = "done"
    /\ UNCHANGED <<pd_total, pd_i, nar_pc, nar_interval_index, nar_todo,
                   ev_put, com_put>>
    /\ UNCHANGED not_pipe

\* The loop is over: the clips are cleaned up (or the cleanup raises) and
\* None is put on event_queue.
PipeDetectEnd ==
    /\ pd_pc = "loop"
    /\ pd_i > pd_total
    /\ event_queue' = Append(event_queue, EndOfEvents)
    /\ pd_pc' = "done"
    /\ UNCHANGED <<pd_total, pd_i, nar_pc, nar_interval_index, nar_todo,
                   ev_put, com_put>>
    /\ UNCHANGED not_pipe

\* event_queue.get() returns None: "break", then None is put on
\* commentary_queue.
NarGetNone ==
    /\ nar_pc = "get"
    /\ event_queue # <<>> /\ Head(event_queue) = EndOfEvents
    /\ event_queue' = Tail(event_queue)
    /\ commentary_queue' = Append(commentary_queue, NoneMarker)
    /\ nar_pc' = "done"
    /\ UNCHANGED <<pd_total, pd_i, pd_pc, nar_interval_index, nar_todo,
                   ev_put, com_put>>
    /\ UNCHANGED <<tts_available, tasks, running, synth_pc>>
    /\ UNCHANGED not_pipe_synth

\* "if not events: ... interval_index += 1; continue"
NarSkip ==
    /\ nar_pc = "get"
    /\ event_queue # <<>> /\ Head(event_queue) # EndOfEvents
    /\ ~Head(event_queue).events
    /\ event_queue' = Tail(event_queue)
    /\ nar_interval_index' = nar_interval_index + 1
    /\ UNCHANGED <<pd_total, pd_i, pd_pc, nar_pc, nar_todo, ev_put, com_put>>
    /\ UNCHANGED synth_vars
    /\ UNCHANGED not_pipe_synth

\* generate_commentary returns the list batch for the events of the clip.
NarGenerate(batch) ==
    /\ nar_pc = "get"
    /\ event_queue # <<>> /\ Head(event_queue) # EndOfEvents
    /\ Head(event_queue).events
    /\ event_queue' = Tail(event_queue)
    /\ nar_todo' = batch
    /\ nar_pc' = "put"
    /\ UNCHANGED <<pd_total, pd_i, pd_pc, nar_interval_index, ev_put, com_put>>
    /\ UNCHANGED synth_vars
    /\ UNCHANGED not_pipe_synth

\* generate_commentary raises: "Continue with next interval even if this one
\* fails", "interval_index += 1".
NarGenerateRaise ==
    /\ nar_pc = "get"
    /\ event_queue # <<>> /\ Head(event_queue) # EndOfEvents
    /\ Head(event_queue).events
    /\ event_queue' = Tail(event_queue)
    /\ nar_interval_index' = nar_interval_index + 1
    /\ UNCHANGED <<pd_total, pd_i, pd_pc, nar_pc, nar_todo, ev_put, com_put>>
    /\ UNCHANGED synth_vars
    /\ UNCHANGED not_pipe_synth

\* "for commentary in commentaries: await commentary_queue.put({...})"
NarPut ==
    /\ nar_pc = "put"
    /\ nar_todo # <<>>
    /\ commentary_queue' = Append(commentary_queue, Head(nar_todo))
    /\ com_put' = Append(com_put, nar_interval_index)
    /\ nar_todo' = Tail(nar_todo)
    /\ UNCHANGED <<pd_total, pd_i, pd_pc, event_queue, nar_pc,
                   nar_interval_index, ev_put>>
    /\ UNCHANGED <<tts_available, tasks, running, synth_pc>>
    /\ UNCHANGED not_pipe_synth

\* The for loop is over, or the statements after a put raise (the progress
\* event reads commentary.commentary): "interval_index += 1".
NarNext ==
    /\ nar_pc = "put"
    /\ \/ nar_todo = <<>>
       \/ com_put # <<>> /\ com_put[Len(com_put)] = nar_interval_index
    /\ nar_todo' = <<>>
    /\ nar_interval_index' = nar_interval_index + 1
    /\ nar_pc' = "get"
    /\ UNCHANGED <<pd_total, pd_i, pd_pc, event_queue, ev_put, com_put>>
    /\ UNCHANGED synth_vars
    /\ UNCHANGED not_pipe_synth

\* self.video_duration of a video of n clips: n - 1 clips of 30 s and one
\* of 11 s.
PipeDuration(n) == Sec(30 * (n - 1) + 11)

InitPipe ==
    /\ DetIdle /\ SmIdle /\ RlIdle /\ CallIdle /\ SesIdle /\ UpIdle
    /\ TimeIdle
    /\ DelayIdle
    /\ FinIdle /\ StIdle /\ IvIdle /\ OffIdle /\ ValIdle /\ TtsIdle
    /\ pd_total \in 1..MaxPipeClips
    /\ pd_i = 1
    /\ pd_pc = "loop"
    /\ event_queue = <<>>
    /\ nar_pc = "get"
    /\ nar_interval_index = 0
    /\ nar_todo = <<>>
    /\ ev_put = <<>>
    /\ com_put = <<>>
    /\ tts_available \in BOOLEAN
    /\ commentary_queue = <<>>
    /\ tasks = {}
    /\ running = {}
    /\ synth_pc = "get"
    /\ video_duration = PipeDuration(pd_total)
    /\ commentaries = {}
    /\ pending = {}
    /\ audio_queue = <<>>
    /\ audio_buffer = {}
    /\ chunk_index = 0
    /\ chunk_start = 0
    /\ audio_complete = FALSE
    /\ chunk_queue = <<>>
    /\ mux_pc = "emit"
    /\ arrived = <<>>
    /\ popped = <<>>
    /\ create_failed = FALSE
    /\ null_audio = {}
    /\ dropped = {}

PipeDetStep ==
    \/ \E found \in BOOLEAN : PipeDetect(found)
    \/ PipeDetectRaise
    \/ PipeDetectEnd

PipeNarStep ==
    \/ NarGetNone
    \/ NarSkip
    \/ \E batch \in PipeBatches(nar_interval_index) : NarGenerate(batch)
    \/ NarGenerateRaise
    \/ NarPut
    \/ NarNext

PipeSynthStep ==
    \/ SynthCreateTask
    \/ SynthWaitFirst
    \/ SynthGetNone
    \/ SynthGather
    \/ SynthStageRaise
    \/ SynthPassThrough
    \/ SynthPassNone

PipeTaskStep == \E c \in PipeUniverse : TaskComplete(c)

NextPipe == PipeDetStep \/ PipeNarStep \/ PipeSynthStep \/ PipeTaskStep \/ MuxStep

SpecPipe == InitPipe /\ [][NextPipe]_vars

\* Every stage task that can run is run by the event loop.
FairSpecPipe ==
    /\ SpecPipe
    /\ WF_vars(PipeDetStep) /\ WF_vars(PipeNarStep) /\ WF_vars(PipeSynthStep)
    /\ WF_vars(PipeTaskStep) /\ WF_vars(MuxStep)

\* Detection and narration alone: commentary_queue collects what the
\* narration stage puts.
InitStages ==
    /\ MuxIdle /\ DetIdle /\ SmIdle /\ RlIdle /\ CallIdle /\ SesIdle
    /\ TimeIdle
    /\ DelayIdle
    /\ UpIdle /\ FinIdle /\ StIdle /\ IvIdle /\ OffIdle /\ ValIdle
    /\ TtsIdle
    /\ pd_total \in 1..MaxPipeClips
    /\ pd_i = 1
    /\ pd_pc = "loop"
    /\ event_queue = <<>>
    /\ nar_pc = "get"
    /\ nar_interval_index = 0
    /\ nar_todo = <<>>
    /\ ev_put = <<>>
    /\ com_put = <<>>
    /\ tts_available = TRUE
    /\ commentary_queue = <<>>
    /\ tasks = {}
    /\ running = {}
    /\ synth_pc = "done"

NextStages == PipeDetStep \/ PipeNarStep

SpecStages == InitStages /\ [][NextStages]_vars

(* Properties of the streaming stages *)

Ascending(s) == \A k \in 1..(Len(s) - 1) : s[k] < s[k + 1]

NonDecreasing(s) == \A k \in 1..(Len(s) - 1) : s[k] <= s[k + 1]

\* The clip a commentary lies in.
SegmentOf(c) == c.start \div Sec(30)

\* C32: batches are put on event_queue in ascending segment index, and every
\* commentary of segment N is put on commentary_queue, labelled N, before
\* any commentary of segment N + 1.
C32_SegmentOrderPreserved ==
    /\ Ascending(ev_put)
    /\ NonDecreasing(com_put)
    /\ \A k \in 1..Len(commentary_queue) :
          \A l \in (k + 1)..Len(commentary_queue) :
             (commentary_queue[k] # NoneMarker /\
              commentary_queue[l] # NoneMarker)
                => SegmentOf(commentary_queue[k])
                      <= SegmentOf(commentary_queue[l])

\* Both clips were detected and a commentary of each is on commentary_queue
\* while the synthesis stage has not taken any.
C32_Witness ==
    /\ ev_put = <<0, 1>>
    /\ com_put = <<0, 0, 0, 1>>
    /\ Len(commentary_queue) = 4

(* Chunk durations of the muxing stage *)

\* C33: every chunk put on chunk_queue by the muxing stage lasts at least
\* 0.1 s.
C33_NoShortChunkEmitted ==
    \A k \in 1..Len(chunk_queue) :
       chunk_queue[k] # NoneMarker =>
          chunk_queue[k].end - chunk_queue[k].start >= MinChunkDuration

----------------------------------------------------------------------------
(* Audio delay of an overlay, on both chunk-creation paths.                  *)

\* commentary.start_time (whole seconds) and chunk_start of one call.
DelayCommentaryStarts == { Sec(0), Sec(5), Sec(12), Sec(14), Sec(30), Sec(32),
                           Sec(48), Sec(65) }

DelayChunkStarts == { 0, Sec(4), Sec(12), Sec(12) + 1, Sec(30), Sec(45),
                      Sec(60), Sec(65) }

\* "delay_ms = int(delay_from_chunk_start * 1000)": a tick is 50 ms.
delay_ms_of(commentary_start, cursor) == 50 * (commentary_start - cursor)

\* Mutation of ClampDelay: the delay is passed on as computed.
UnclampedDelay(ms) == ms

\* "if delay_ms < 0: ... delay_ms = 0" and "max(0, int(...))"
ClampDelay(ms) == IF ms < 0 THEN 0 ELSE ms

\* _process_segment_and_emit: "if chunk_start <= commentary_start < chunk_end"
WithinSegment(commentary_start, cursor, chunk_end) ==
    cursor <= commentary_start /\ commentary_start < chunk_end

\* try_emit_next_chunk pops the item ("earliest_start <= chunk_start + 5.0")
\* and _create_single_chunk places its audio: a negative delay is reported,
\* then set to 0.
DelaySingle ==
    /\ dl_pc = "called"
    /\ dl_commentary_start <= dl_chunk_start + Tolerance
    /\ LET ms == delay_ms_of(dl_commentary_start, dl_chunk_start)
       IN /\ dl_warned' = (ms < 0)
          /\ dl_delay_ms' = ClampDelay(ms)
    /\ dl_pc' = "single"
    /\ UNCHANGED <<dl_commentary_start, dl_chunk_start, dl_chunk_end>>
    /\ UNCHANGED not_dl

\* _process_segment_and_emit keeps the item and
\* _create_single_chunk_multi_audio places its audio:
\* "delay_ms = max(0, int(...))", then the clamped value is printed.
DelayMulti ==
    /\ dl_pc = "called"
    /\ WithinSegment(dl_commentary_start, dl_chunk_start, dl_chunk_end)
    /\ LET ms == delay_ms_of(dl_commentary_start, dl_chunk_start)
       IN dl_delay_ms' = ClampDelay(ms)
    /\ dl_pc' = "multi"
    /\ UNCHANGED <<dl_commentary_start, dl_chunk_start, dl_chunk_end,
                   dl_warned>>
    /\ UNCHANGED not_dl

\* _process_segment_and_emit: "Skipping commentary ... (outside segment)".
DelaySkipped ==
    /\ dl_pc = "called"
    /\ ~WithinSegment(dl_commentary_start, dl_chunk_start, dl_chunk_end)
    /\ dl_pc' = "skipped"
    /\ UNCHANGED <<dl_commentary_start, dl_chunk_start, dl_chunk_end,
                   dl_delay_ms, dl_warned>>
    /\ UNCHANGED not_dl

InitDelay ==
    /\ MuxIdle /\ DetIdle /\ SmIdle /\ SynthIdle /\ RlIdle /\ CallIdle
    /\ TimeIdle
    /\ SesIdle /\ UpIdle /\ FinIdle /\ StIdle /\ IvIdle /\ OffIdle /\ ValIdle
    /\ TtsIdle /\ PipeIdle
    /\ dl_pc = "called"
    /\ dl_commentary_start \in DelayCommentaryStarts
    /\ dl_chunk_start \in DelayChunkStarts
    /\ dl_chunk_end \in { dl_chunk_start + Sec(5), dl_chunk_start + Sec(30) }
    /\ dl_delay_ms = -1
    /\ dl_warned = FALSE

NextDelay == DelaySingle \/ DelayMulti \/ DelaySkipped

SpecDelay == InitDelay /\ [][NextDelay]_vars

\* An overlay was placed, on either path.
Placed == dl_pc \in {"single", "multi"}

C35_EmittedBeforeNextStarts ==
    \A k \in 2..Len(ses_clips) :
       Logged("analysed", k) =>
          \E j \in 1..Len(ChunkReady) : ChunkReady[j].index = k - 2

\* C40: a stream that ends with 'complete' reports as 'chunks' the number of
\* chunk_ready events yielded before it.
C40_CompleteCountsChunkReady ==
    EndedWith("complete") => LastEvent.chunks = Len(ChunkReady)

\* A session of two segments ended with 'complete' after the chunk of one
\* segment had failed and the chunk of the other had been announced.
C40_Witness ==
    /\ EndedWith("complete")
    /\ Len(ChunkReady) = 1
    /\ Len(ses_clips) = 2
    /\ \E k \in 1..2 : Logged("chunk_fail", k)

(* Backoff of the narration retry *)

\* C36: the narration call makes at most 5 attempts and the waits between
\* them are 4 s, 8 s, 16 s and 32 s (never more than 60 s).
C36_BackoffDoubles ==
    (call_kind = "narration") =>
        /\ call_attempt <= 5
        /\ Len(call_delays) <= 4
        /\ \A i \in 1..Len(call_delays) :
               call_delays[i] = MinOf(4 * Pow2(i - 1), 60)

----------------------------------------------------------------------------
(* Time strings.  A string "HH:MM:SS" is the sequence of its fields between  *)
(* the colons (what split(':') returns), each a sequence of decimal digits.  *)

MaxWholeSeconds == 61

\* Arguments of seconds_to_time: every second of the first minute and more,
\* and values around the minute, the hour and a hundred hours.
TimeInputs ==
    (0..MaxWholeSeconds) \cup
    { 599, 600, 3599, 3600, 3661, 5445, 35999, 36000, 86399, 359999, 360000 }

RECURSIVE Digits(_)
\* str(n) of a whole number n >= 0
Digits(n) == IF n < 10 THEN <<n>> ELSE Append(Digits(n \div 10), n % 10)

RECURSIVE IntOfDigits(_)
\* int(s) of a string of decimal digits
IntOfDigits(s) ==
    IF s = <<>> THEN 0
    ELSE 10 * IntOfDigits(SubSeq(s, 1, Len(s) - 1)) + s[Len(s)]

\* Mutation of Format02d: the field is not padded.
FormatD(n) == Digits(n)

\* f"{n:02d}": at least two digits, padded with a zero
Format02d(n) == IF n < 10 THEN <<0, n>> ELSE Digits(n)

\* f"{hours:02d}:{minutes:02d}:{secs:02d}"
FormatTime(hms) == <<Format02d(hms[1]), Format02d(hms[2]), Format02d(hms[3])>>

\* "parts = time_str.split(':')" and the three formats of
\* parse_time_to_seconds, as <<hours, minutes, seconds>>
ParseParts(parts) ==
    IF Len(parts) = 3
    THEN <<IntOfDigits(parts[1]), IntOfDigits(parts[2]),
           IntOfDigits(parts[3])>>
    ELSE IF Len(parts) = 2
         THEN <<0, IntOfDigits(parts[1]), IntOfDigits(parts[2])>>
         ELSE <<0, 0, IntOfDigits(parts[1])>>

\* seconds_to_time(n) is called.
TimeFormat ==
    /\ tm_pc = "input"
    /\ tm_text' = FormatTime(seconds_to_time(Sec(tm_seconds)))
    /\ tm_pc' = "formatted"
    /\ UNCHANGED <<tm_seconds, tm_parsed>>
    /\ UNCHANGED not_tm

\* parse_time_to_seconds is called with the string returned.
TimeParse ==
    /\ tm_pc = "formatted"
    /\ tm_parsed' = parse_time_to_seconds(ParseParts(tm_text))
    /\ tm_pc' = "parsed"
    /\ UNCHANGED <<tm_seconds, tm_text>>
    /\ UNCHANGED not_tm

InitTime ==
    /\ MuxIdle /\ DetIdle /\ SmIdle /\ SynthIdle /\ RlIdle /\ CallIdle
    /\ SesIdle /\ UpIdle /\ FinIdle /\ StIdle /\ IvIdle /\ OffIdle /\ ValIdle
    /\ TtsIdle /\ PipeIdle /\ DelayIdle
    /\ tm_pc = "input"
    /\ tm_seconds \in TimeInputs
    /\ tm_text = <<>>
    /\ tm_parsed = 0

NextTime == TimeFormat \/ TimeParse

SpecTime == InitTime /\ [][NextTime]_vars

\* C37: seconds_to_time renders a whole number of seconds as three fields of
\* at least two digits, minutes and seconds below 60 (5445 gives 01:30:45),
\* and parse_time_to_seconds of that string is the number again.
C37_TimeRoundTrip ==
    /\ tm_pc \in {"formatted", "parsed"} =>
          /\ Len(tm_text) = 3
          /\ \A f \in 1..3 : Len(tm_text[f]) >= 2
          /\ \A f \in 2..3 : Len(tm_text[f]) = 2 /\ tm_text[f][1] <= 5
          /\ tm_seconds = 5445
                => tm_text = << <<0, 1>>, <<3, 0>>, <<4, 5>> >>
    /\ tm_pc = "parsed" => tm_parsed = 20 * tm_seconds

\* 5445 s went through both functions.
C37_Witness ==
    /\ tm_pc = "parsed"
    /\ tm_seconds = 5445
    /\ tm_text = << <<0, 1>>, <<3, 0>>, <<4, 5>> >>
    /\ tm_parsed = 20 * 5445

(* Items and end-of-stream marker of the synthesis stage *)

\* The commentaries the stage has taken from commentary_queue.
Taken ==
    { c \in commentaries :
         \A k \in 1..Len(commentary_queue) : commentary_queue[k] # c }

\* The positions of x on audio_queue.
OnAudioQueue(x) == { k \in 1..Len(audio_queue) : audio_queue[k] = x }

\* C38: a commentary is put on audio_queue only after it was taken, and at
\* most once; the end-of-stream marker is put once, as the last item, and
\* when it is put every commentary taken has its one item before it.
C38_OneItemThenMarker ==
    /\ \A c \in commentaries :
          /\ Cardinality(OnAudioQueue(c)) <= 1
          /\ OnAudioQueue(c) # {} => c \in Taken
    /\ Cardinality(OnAudioQueue(NoneMarker)) <= 1
    /\ OnAudioQueue(NoneMarker) # {} =>
          /\ audio_queue[Len(audio_queue)] = NoneMarker
          /\ \A c \in Taken : Cardinality(OnAudioQueue(c)) = 1

(* End-of-stream markers through the whole pipeline *)

\* The end-of-stream marker is on chunk_queue.
ChunkQueueEnded ==
    chunk_queue # <<>> /\ chunk_queue[Len(chunk_queue)] = NoneMarker

\* C39: no queue ever holds two end-of-stream markers, and once the
\* detection stage has stopped the marker reaches chunk_queue and the
\* narration, synthesis and muxing stages terminate.
C39_MarkerReachesChunkQueue ==
    /\ [](/\ Cardinality({k \in 1..Len(event_queue) :
                            event_queue[k] = EndOfEvents}) <= 1
          /\ Cardinality({k \in 1..Len(commentary_queue) :
                            commentary_queue[k] = NoneMarker}) <= 1
          /\ Cardinality(OnAudioQueue(NoneMarker)) <= 1
          /\ Cardinality({k \in 1..Len(chunk_queue) :
                            chunk_queue[k] = NoneMarker}) <= 1)
    /\ (pd_pc = "done") ~>
          (/\ nar_pc = "done" /\ synth_pc = "done" /\ mux_pc = "done"
           /\ ChunkQueueEnded)

====
